---- MODULE Spec2Model ----
(***************************************************************************)
(* A model of the delayed-FST core of OpenFst: the queue-driven Visit      *)
(* engine and its canonical visitors (visit.h), the delayed complement     *)
(* (complement.h) and the encode table / encode mapper (encode.h).         *)
(*                                                                         *)
(* State ids and arc positions are 0-based as in the C++ code; TLA+        *)
(* sequences are 1-based, so state s lives at index s + 1.                 *)
(***************************************************************************)
EXTENDS Integers, Sequences, FiniteSets, TLC

(***************************************************************************)
(* Bounds of the model.                                                    *)
(***************************************************************************)
\* largest number of states of a visited FST
MaxStates == 2
\* largest total number of arcs of a visited FST
MaxArcs == 2
\* largest maxvisit given to a PartialVisitor / PartialCopyVisitor
MaxVisit == 2
\* longest label string tried on an acceptor and its complement
MaxWord == 3
\* most tuples an EncodeTable is grown to
MaxTuples == 2
\* most positional arguments on a command line
MaxPositional == 4
\* most EncodeMappers made by copying
MaxMappers == 3
\* most EncodeFst objects made
MaxEncodeFsts == 4

(***************************************************************************)
(* Library constants.                                                      *)
(***************************************************************************)
kNoStateId == -1
kNoLabel == -1
kWhiteState == 1
kGreyState == 2
kBlackState == 4
kArcIterDone == 8
kRhoLabel == -2
kEncodeLabels == 1
kEncodeWeights == 2
kEncodeFlags == 3
kEncodeHasISymbols == 4
kEncodeHasOSymbols == 8
kEncodeMagicNumber == 2129983209
ENCODE == 1
DECODE == 2

Zero == "Zero"
One == "One"
NoWeight == "NoWeight"

\* arc_iterator[s] == nullptr
NullIter == -1

(***************************************************************************)
(* State of one Visit call: its arguments (fst, opts), its locals under    *)
(* their names in visit.h, the visitor's state (vis), the position in the  *)
(* function (pc), and what an observer of the call sees: the callbacks     *)
(* made so far (log), the number of queue calls made (queue_ops) and, once *)
(* a callback has returned false, where in the log that was and which      *)
(* states were Grey then (halt).                                           *)
(***************************************************************************)
VARIABLES fst, opts, pc, state_status, arc_iterator, nstates, root, visit,
          queue, siter, vis, log, queue_ops, halt

visitVars == <<fst, opts, pc, state_status, arc_iterator, nstates, root, visit,
               queue, siter, vis, log, queue_ops, halt>>

(***************************************************************************)
(* State of one ComplementFst: the source FST it was built from (csrc,     *)
(* with the source's own kError bit as field error), whether the           *)
(* constructor has run (cpc), the property bits of its Impl (cprops), and  *)
(* the last call made on it with its result (cret).  An arc cursor over    *)
(* the complement: the cursor's members (caiter) and the arcs a loop over  *)
(* it has read since the cursor was made or reset (cseen).  A state       *)
(* cursor over the complement: its members s_ and siter_ (csiter) and the  *)
(* states a loop over it has read since it was made or reset (csseen).     *)
(***************************************************************************)
VARIABLES csrc, cpc, cprops, cret, caiter, cseen, csiter, csseen

complementVars == <<csrc, cpc, cprops, cret, caiter, cseen, csiter, csseen>>

(***************************************************************************)
(* State of one EncodeTable and the two EncodeMappers that share it: the   *)
(* table's flags (eflags) and tuples in insertion order (etable), the      *)
(* error_ member of the DECODE mapper (derror), and the last mapper call   *)
(* with its argument and result (elast).  Further: the table_ pointer of   *)
(* the DECODE mapper (dtab), the Encode calls that returned a label for    *)
(* the first time (issued), the last call made on the table itself (tlast) *)
(* and one earlier Encode call kept for comparison (tkept), the table's    *)
(* own flags_ (tflags) and symbol tables (esyms), the symbol tables of the *)
(* FST handed to Encode and Decode with the stage reached (efst), the      *)
(* stream a table was written to (estrm) and what was read back (rtable).  *)
(***************************************************************************)
VARIABLES eflags, etable, derror, elast, dtab, issued, tlast, tkept, tflags, esyms,
          efst, estrm, rtable

encodeVars == <<eflags, etable, derror, elast, dtab, issued, tlast, tkept, tflags,
                esyms, efst, estrm, rtable>>

\* the parts of the encode state that the mapper calls leave alone
tableCallVars == <<tlast, tkept>>

symbolVars == <<esyms, efst>>

streamVars == <<estrm, rtable>>

(***************************************************************************)
(* State of the scripting layer and of one run of a command-line tool: the *)
(* operation register as the set of its entries (sreg), the ArgPack an     *)
(* Apply call is given (sargs), the last Apply call with the bodies it     *)
(* invoked (slast); the run of a main() (cli): the tool, its positional    *)
(* arguments and compose_filter flag, the locals of main, the position in  *)
(* it, the reads and writes made so far and the exit code.                 *)
(***************************************************************************)
VARIABLES sreg, sargs, slast, cli

toolVars == <<sreg, sargs, slast, cli>>

(***************************************************************************)
(* Objects that are copied: the EncodeMappers made so far, each with its   *)
(* members flags_, type_, table_ and error_ (mappers); the EncodeFst       *)
(* objects made so far, each with the Impl it points to, the object it was *)
(* copied from (0 for none) and the safe argument of that Copy call        *)
(* (ehandles); the Impls, each with its property bits (eimpls).            *)
(***************************************************************************)
VARIABLES mappers, ehandles, eimpls

objectVars == <<mappers, ehandles, eimpls>>

vars == <<visitVars, complementVars, encodeVars, toolVars, objectVars>>

otherThanVisit == <<complementVars, encodeVars, toolVars, objectVars>>

otherThanComplement == <<visitVars, encodeVars, toolVars, objectVars>>

otherThanEncode == <<visitVars, complementVars, toolVars, objectVars>>

otherThanTools == <<visitVars, complementVars, encodeVars, objectVars>>

otherThanObjects == <<visitVars, complementVars, encodeVars, toolVars>>

otherThanEncodeAndObjects == <<visitVars, complementVars, toolVars>>

Arc(il, ol, w, ns) == [ilabel |-> il, olabel |-> ol, weight |-> w, nextstate |-> ns]

NoArc == Arc(kNoLabel, kNoLabel, NoWeight, kNoStateId)

(***************************************************************************)
(* The Fst read view: an FST is [start, arcs, final, expanded], arcs[s+1]  *)
(* the arcs of state s in arc-cursor order, final[s+1] its final weight.   *)
(***************************************************************************)
NumStates(f) == Len(f.arcs)

Final(f, s) == f.final[s + 1]

NumArcs(f, s) == Len(f.arcs[s + 1])

\* ArcIterator<F>(fst, s) at position p: Done() and Value()
AIterDone(f, s, p) == p >= NumArcs(f, s)

AIterValue(f, s, p) == f.arcs[s + 1][p + 1]

(***************************************************************************)
(* The bounded family of FSTs a visit is run on.  An FST with n states is  *)
(* given by a list of at most MaxArcs (source state, arc) pairs, listed by *)
(* source state; the arcs of one state keep their order in the list.       *)
(***************************************************************************)
ArcPairs(n, labels) ==
    {[src |-> s, arc |-> Arc(l, l, One, d)] : s \in 0..(n - 1), l \in labels, d \in 0..(n - 1)}

ArcLists(n, labels) ==
    UNION {{al \in [1..k -> ArcPairs(n, labels)] :
                \A i \in 1..(k - 1) : al[i].src <= al[i + 1].src} : k \in 0..MaxArcs}

ArcsFrom(al, s) ==
    LET sel == SelectSeq(al, LAMBDA e : e.src = s)
    IN  [i \in 1..Len(sel) |-> sel[i].arc]

Fsts(labels, weights, expandeds) ==
    UNION {{[start |-> st,
             arcs |-> [i \in 1..n |-> ArcsFrom(al, i - 1)],
             final |-> fin,
             expanded |-> ex] :
                st \in (IF n = 0 THEN {kNoStateId} ELSE {kNoStateId} \cup 0..(n - 1)),
                al \in ArcLists(n, labels),
                fin \in [1..n -> weights],
                ex \in expandeds} : n \in 0..MaxStates}

(***************************************************************************)
(* Collaborators of Visit: the queue discipline and the arc filter.        *)
(***************************************************************************)
\* queue->Enqueue(s), queue->Head(), queue->Dequeue() of FifoQueue and LifoQueue
QEnqueue(q, s) == Append(q, s)

QHead(q, disc) == IF disc = "FIFO" THEN q[1] ELSE q[Len(q)]

QDequeue(q, disc) == IF disc = "FIFO" THEN Tail(q) ELSE SubSeq(q, 1, Len(q) - 1)

\* AnyArcFilter accepts every arc, EpsilonArcFilter the epsilon:epsilon arcs
FilterAccepts(filter, arc) ==
    \/ filter = "any"
    \/ filter = "epsilon" /\ arc.ilabel = 0 /\ arc.olabel = 0

(***************************************************************************)
(* The MutableFst the copy visitors write to: [start, arcs, final].        *)
(***************************************************************************)
DeleteStates(o) == [start |-> kNoStateId, arcs |-> <<>>, final |-> <<>>]

SetStart(o, s) == [o EXCEPT !.start = s]

AddState(o) == [o EXCEPT !.arcs = Append(@, <<>>), !.final = Append(@, Zero)]

AddArc(o, s, arc) == [o EXCEPT !.arcs[s + 1] = Append(@, arc)]

SetFinal(o, s, w) == [o EXCEPT !.final[s + 1] = w]

(***************************************************************************)
(* The visitors.  A visitor's state is [ofst, ninit, nfinish]: the output  *)
(* FST of the copy visitors and the counters of the partial visitors.      *)
(* opts is [visitor, queue, filter, access_only, maxvisit, copy_grey,      *)
(* copy_black]: the arguments of Visit and of the visitor's constructor.   *)
(***************************************************************************)
RECURSIVE AddStatesUpTo(_, _)
AddStatesUpTo(o, s) == IF NumStates(o) <= s THEN AddStatesUpTo(AddState(o), s) ELSE o

CopyInitVisit(vs, f) == [vs EXCEPT !.ofst = SetStart(DeleteStates(@), f.start)]

CopyInitState(vs, s) == [vs EXCEPT !.ofst = AddStatesUpTo(@, s)]

CopyWhiteArc(vs, s, arc) == [vs EXCEPT !.ofst = AddArc(@, s, arc)]

\* a plausible slip: an arc to a Grey state is not copied
CopyGreyArcSkip(vs, s, arc) == vs

CopyGreyArc(vs, s, arc) == [vs EXCEPT !.ofst = AddArc(@, s, arc)]

CopyBlackArc(vs, s, arc) == [vs EXCEPT !.ofst = AddArc(@, s, arc)]

CopyFinishState(vs, s, f) == [vs EXCEPT !.ofst = SetFinal(@, s, Final(f, s))]

PartialInitVisit(vs) == [vs EXCEPT !.ninit = 0, !.nfinish = 0]

PartialInitState(vs) == [vs EXCEPT !.ninit = @ + 1]

\* the value PartialVisitor::InitState returns, vs the state after ++ninit_
PartialInitStateRet(vs, maxvisit) == vs.ninit <= maxvisit

PartialFinishState(vs) == [vs EXCEPT !.nfinish = @ + 1]

PartialCopyInitVisit(vs, f) == PartialInitVisit(CopyInitVisit(vs, f))

PartialCopyInitState(vs, s) == PartialInitState(CopyInitState(vs, s))

PartialCopyGreyArc(vs, s, arc, copy_grey) == IF copy_grey THEN CopyGreyArc(vs, s, arc) ELSE vs

PartialCopyBlackArc(vs, s, arc, copy_black) == IF copy_black THEN CopyBlackArc(vs, s, arc) ELSE vs

PartialCopyFinishState(vs, s, f) == PartialFinishState(CopyFinishState(vs, s, f))

\* visitor->InitVisit(fst)
VInitVisit(o, vs, f) ==
    CASE o.visitor = "copy" -> CopyInitVisit(vs, f)
      [] o.visitor = "partial" -> PartialInitVisit(vs)
      [] o.visitor = "partialcopy" -> PartialCopyInitVisit(vs, f)
      [] OTHER -> vs

\* visitor->InitState(s, root): the visitor's state after the call
VInitState(o, vs, s) ==
    CASE o.visitor = "copy" -> CopyInitState(vs, s)
      [] o.visitor = "partial" -> PartialInitState(vs)
      [] o.visitor = "partialcopy" -> PartialCopyInitState(vs, s)
      [] OTHER -> vs

\* the values visitor->InitState may return, vs the visitor's state after the
\* call; a visitor of the caller's own ("generic") may return either
VInitStateRet(o, vs) ==
    CASE o.visitor = "copy" -> {TRUE}
      [] o.visitor \in {"partial", "partialcopy"} -> {PartialInitStateRet(vs, o.maxvisit)}
      [] OTHER -> BOOLEAN

VWhiteArc(o, vs, s, arc) ==
    CASE o.visitor \in {"copy", "partialcopy"} -> CopyWhiteArc(vs, s, arc)
      [] OTHER -> vs

VGreyArc(o, vs, s, arc) ==
    CASE o.visitor = "copy" -> CopyGreyArc(vs, s, arc)
      [] o.visitor = "partialcopy" -> PartialCopyGreyArc(vs, s, arc, o.copy_grey)
      [] OTHER -> vs

VBlackArc(o, vs, s, arc) ==
    CASE o.visitor = "copy" -> CopyBlackArc(vs, s, arc)
      [] o.visitor = "partialcopy" -> PartialCopyBlackArc(vs, s, arc, o.copy_black)
      [] OTHER -> vs

\* the values WhiteArc, GreyArc and BlackArc may return
VArcRet(o) == IF o.visitor = "generic" THEN BOOLEAN ELSE {TRUE}

VFinishState(o, vs, s, f) ==
    CASE o.visitor = "copy" -> CopyFinishState(vs, s, f)
      [] o.visitor = "partial" -> PartialFinishState(vs)
      [] o.visitor = "partialcopy" -> PartialCopyFinishState(vs, s, f)
      [] OTHER -> vs

\* one entry of the record of the callbacks Visit has made
Event(cb, s, r, a, ret) == [cb |-> cb, s |-> s, root |-> r, arc |-> a, ret |-> ret]

(***************************************************************************)
(* Visit (visit.h, lines 54-177).                                          *)
(***************************************************************************)
\* state_status[s] & kArcIterDone
HasArcIterDone(x) == (x \div kArcIterDone) % 2 = 1

\* state_status[s] |= kArcIterDone
SetArcIterDone(x) == IF HasArcIterDone(x) THEN x ELSE x + kArcIterDone

\* std::vector::resize(n, v)
Resize(seq, n, v) ==
    IF n >= Len(seq) THEN seq \o [i \in 1..(n - Len(seq)) |-> v] ELSE SubSeq(seq, 1, n)

\* the states that are discovered and unfinished
GreySet(st) == {s \in 0..(Len(st) - 1) : (st[s + 1] \div kGreyState) % 2 = 1}

\* a plausible slip: the kArcIterDone mark is not consulted
NeedIterUnmarked(p, status, v) == p = NullIter /\ v

\* the condition under which the arc iterator of the head state is created
NeedIter(p, status, v) == p = NullIter /\ ~HasArcIterDone(status) /\ v

\* the condition under which the arc iterator of the head state is destroyed
DeleteIter(f, s, p, v) == (p # NullIter /\ AIterDone(f, s, p)) \/ ~v

\* a plausible slip: the arc iterator of the head state is created and kept
\* without a look at visit
HeadPrepUnhalted ==
    LET s == QHead(queue, opts.queue)
        big == s >= Len(state_status)
        n1 == IF big THEN s + 1 ELSE nstates
        st1 == IF big THEN Resize(state_status, s + 1, kWhiteState) ELSE state_status
        ai1 == IF big THEN Resize(arc_iterator, s + 1, NullIter) ELSE arc_iterator
        ai2 == IF NeedIter(ai1[s + 1], st1[s + 1], TRUE)
               THEN [ai1 EXCEPT ![s + 1] = 0] ELSE ai1
        del == DeleteIter(fst, s, ai2[s + 1], TRUE)
    IN  [s |-> s,
         n |-> n1,
         st |-> IF del THEN [st1 EXCEPT ![s + 1] = SetArcIterDone(@)] ELSE st1,
         ai |-> IF del THEN [ai2 EXCEPT ![s + 1] = NullIter] ELSE ai2]

\* The head of the queue after the first part of the while body: the arrays
\* grown to hold it, its arc iterator created if needed and destroyed if done.
HeadPrep ==
    LET s == QHead(queue, opts.queue)
        big == s >= Len(state_status)
        n1 == IF big THEN s + 1 ELSE nstates
        st1 == IF big THEN Resize(state_status, s + 1, kWhiteState) ELSE state_status
        ai1 == IF big THEN Resize(arc_iterator, s + 1, NullIter) ELSE arc_iterator
        ai2 == IF NeedIter(ai1[s + 1], st1[s + 1], visit)
               THEN [ai1 EXCEPT ![s + 1] = 0] ELSE ai1
        del == DeleteIter(fst, s, ai2[s + 1], visit)
    IN  [s |-> s,
         n |-> n1,
         st |-> IF del THEN [st1 EXCEPT ![s + 1] = SetArcIterDone(@)] ELSE st1,
         ai |-> IF del THEN [ai2 EXCEPT ![s + 1] = NullIter] ELSE ai2]

\* a plausible slip: the iterator is destroyed after Next() without the
\* test of Done()
AdvanceAndDrop(f, st, ai, s, p) ==
    [st |-> [st EXCEPT ![s + 1] = SetArcIterDone(@)], ai |-> [ai EXCEPT ![s + 1] = NullIter]]

\* aiter->Next() on the iterator of s at position p, destroyed if then done
Advance(f, st, ai, s, p) ==
    IF AIterDone(f, s, p + 1)
    THEN [st |-> [st EXCEPT ![s + 1] = SetArcIterDone(@)], ai |-> [ai EXCEPT ![s + 1] = NullIter]]
    ELSE [st |-> st, ai |-> [ai EXCEPT ![s + 1] = p + 1]]

\* the search for the next tree root from r among the n known states
RECURSIVE FindRoot(_, _, _)
FindRoot(st, r, n) == IF r < n /\ st[r + 1] # kWhiteState THEN FindRoot(st, r + 1, n) ELSE r

\* a plausible slip: the state iterator is run to its end and the state
\* numbered target is not noticed
SiterScanMiss(p, n, target) == [pos |-> IF p >= n THEN p ELSE n, found |-> FALSE]

\* the state iterator (at position p of n states, state i at position i)
\* advanced until it is done or at the state numbered target
RECURSIVE SiterScan(_, _, _)
SiterScan(p, n, target) ==
    IF p >= n THEN [pos |-> p, found |-> FALSE]
    ELSE IF p = target THEN [pos |-> p, found |-> TRUE]
    ELSE SiterScan(p + 1, n, target)

\* the record of a refusal: taken when visit turns false
HaltAt(v, lg, st) == IF visit /\ ~v THEN [at |-> Len(lg), grey |-> GreySet(st)] ELSE halt

\* a plausible slip: the early return taken for an FST without states only
NoStartEmpty(f) == NumStates(f) = 0

\* the test for the early return: fst.Start() == kNoStateId
NoStart(f) == f.start = kNoStateId

\* InitVisit, and the set-up of the locals when the FST has a start state
Begin ==
    /\ pc = "start"
    /\ ~NoStart(fst)
    /\ vis' = VInitVisit(opts, vis, fst)
    /\ log' = Append(log, Event("InitVisit", kNoStateId, kNoStateId, NoArc, TRUE))
    /\ nstates' = IF fst.expanded THEN NumStates(fst) ELSE fst.start + 1
    /\ state_status' = [i \in 1..nstates' |-> kWhiteState]
    /\ arc_iterator' = [i \in 1..nstates' |-> NullIter]
    /\ siter' = 0
    /\ visit' = TRUE
    /\ root' = fst.start
    /\ pc' = "for"
    /\ UNCHANGED otherThanVisit
    /\ UNCHANGED <<fst, opts, queue, queue_ops, halt>>

\* InitVisit and FinishVisit when the FST has no start state
BeginNoStart ==
    /\ pc = "start"
    /\ NoStart(fst)
    /\ vis' = VInitVisit(opts, vis, fst)
    /\ log' = log \o <<Event("InitVisit", kNoStateId, kNoStateId, NoArc, TRUE),
                        Event("FinishVisit", kNoStateId, kNoStateId, NoArc, TRUE)>>
    /\ pc' = "done"
    /\ UNCHANGED otherThanVisit
    /\ UNCHANGED <<fst, opts, state_status, arc_iterator, nstates, root, visit,
                   queue, siter, queue_ops, halt>>

\* a plausible slip: the state is marked and enqueued only when its
\* InitState call returned true
MarkAndEnqueueIfTrue(st, q, s, ret) ==
    IF ret THEN [st |-> [st EXCEPT ![s + 1] = kGreyState], queue |-> QEnqueue(q, s)]
    ELSE [st |-> st, queue |-> q]

\* what follows the InitState call of state s, whatever it returned (ret):
\* the state is marked Grey and enqueued
MarkAndEnqueue(st, q, s, ret) ==
    [st |-> [st EXCEPT ![s + 1] = kGreyState], queue |-> QEnqueue(q, s)]

\* the head of the for loop: a new tree of the visit forest is started
TreeRoot ==
    /\ pc = "for"
    /\ visit /\ root < nstates
    /\ LET vs1 == VInitState(opts, vis, root)
       IN  \E b \in VInitStateRet(opts, vs1) :
             /\ vis' = vs1
             /\ log' = Append(log, Event("InitState", root, root, NoArc, b))
             /\ visit' = b
             /\ state_status' = MarkAndEnqueue(state_status, queue, root, b).st
             /\ queue' = MarkAndEnqueue(state_status, queue, root, b).queue
             /\ queue_ops' = queue_ops + 1
             /\ halt' = HaltAt(b, log', state_status')
    /\ pc' = "while"
    /\ UNCHANGED otherThanVisit
    /\ UNCHANGED <<fst, opts, arc_iterator, nstates, root, siter>>

\* the for loop ends: FinishVisit
ForExit ==
    /\ pc = "for"
    /\ ~(visit /\ root < nstates)
    /\ log' = Append(log, Event("FinishVisit", kNoStateId, kNoStateId, NoArc, TRUE))
    /\ pc' = "done"
    /\ UNCHANGED otherThanVisit
    /\ UNCHANGED <<fst, opts, state_status, arc_iterator, nstates, root, visit,
                   queue, siter, vis, queue_ops, halt>>

\* a plausible slip: the head state is dequeued and marked Black without
\* the FinishState call
FinishHeadNoCall(o, f, q, st, vs, lg, s) ==
    [queue |-> QDequeue(q, o.queue),
     vis |-> vs,
     log |-> lg,
     st |-> [st EXCEPT ![s + 1] = kBlackState]]

\* a plausible slip: the head state is dequeued and finished and its colour
\* is left as it was
FinishHeadKeepGrey(o, f, q, st, vs, lg, s) ==
    [queue |-> QDequeue(q, o.queue),
     vis |-> VFinishState(o, vs, s, f),
     log |-> Append(lg, Event("FinishState", s, kNoStateId, NoArc, TRUE)),
     st |-> st]

\* what the dequeue branch of the while body does to the head state s
FinishHeadResult(o, f, q, st, vs, lg, s) ==
    [queue |-> QDequeue(q, o.queue),
     vis |-> VFinishState(o, vs, s, f),
     log |-> Append(lg, Event("FinishState", s, kNoStateId, NoArc, TRUE)),
     st |-> [st EXCEPT ![s + 1] = kBlackState]]

\* one pass of the while body that dequeues the head state and finishes it
FinishHead ==
    /\ pc = "while"
    /\ queue # <<>>
    /\ LET h == HeadPrep
       IN  /\ HasArcIterDone(h.st[h.s + 1])
           /\ LET r == FinishHeadResult(opts, fst, queue, h.st, vis, log, h.s)
              IN  /\ queue' = r.queue
                  /\ vis' = r.vis
                  /\ log' = r.log
                  /\ state_status' = r.st
           /\ arc_iterator' = h.ai
           /\ nstates' = h.n
    /\ queue_ops' = queue_ops + 3
    /\ UNCHANGED otherThanVisit
    /\ UNCHANGED <<fst, opts, pc, root, visit, siter, halt>>

\* one pass of the while body that visits the current arc of the head state
VisitArc ==
    /\ pc = "while"
    /\ queue # <<>>
    /\ LET h == HeadPrep
           s == h.s
       IN
       /\ ~HasArcIterDone(h.st[s + 1])
       /\ LET p == h.ai[s + 1]
              arc == AIterValue(fst, s, p)
              ns == arc.nextstate
              big == ns >= Len(h.st)
              st4 == IF big THEN Resize(h.st, ns + 1, kWhiteState) ELSE h.st
              ai4 == IF big THEN Resize(h.ai, ns + 1, NullIter) ELSE h.ai
          IN
          /\ nstates' = IF big THEN ns + 1 ELSE h.n
          /\ IF ~FilterAccepts(opts.filter, arc) THEN
                 /\ state_status' = Advance(fst, st4, ai4, s, p).st
                 /\ arc_iterator' = Advance(fst, st4, ai4, s, p).ai
                 /\ queue_ops' = queue_ops + 2
                 /\ UNCHANGED <<visit, vis, log, queue, halt>>
             ELSE IF st4[ns + 1] = kWhiteState THEN
                 \E b1 \in VArcRet(opts) :
                   LET vs1 == VWhiteArc(opts, vis, s, arc)
                       lg1 == Append(log, Event("WhiteArc", s, kNoStateId, arc, b1))
                   IN
                   IF ~b1 THEN
                       /\ visit' = FALSE
                       /\ vis' = vs1
                       /\ log' = lg1
                       /\ state_status' = st4
                       /\ arc_iterator' = ai4
                       /\ queue_ops' = queue_ops + 2
                       /\ halt' = HaltAt(FALSE, lg1, st4)
                       /\ UNCHANGED queue
                   ELSE
                       LET vs2 == VInitState(opts, vs1, ns)
                       IN  \E b2 \in VInitStateRet(opts, vs2) :
                             LET st5 == MarkAndEnqueue(st4, queue, ns, b2).st
                             IN  /\ visit' = b2
                                 /\ vis' = vs2
                                 /\ log' = Append(lg1, Event("InitState", ns, root, NoArc, b2))
                                 /\ queue' = MarkAndEnqueue(st4, queue, ns, b2).queue
                                 /\ queue_ops' = queue_ops + 3
                                 /\ state_status' = Advance(fst, st5, ai4, s, p).st
                                 /\ arc_iterator' = Advance(fst, st5, ai4, s, p).ai
                                 /\ halt' = HaltAt(b2, log', st5)
             ELSE IF st4[ns + 1] = kBlackState THEN
                 \E b \in VArcRet(opts) :
                   /\ visit' = b
                   /\ vis' = VBlackArc(opts, vis, s, arc)
                   /\ log' = Append(log, Event("BlackArc", s, kNoStateId, arc, b))
                   /\ state_status' = Advance(fst, st4, ai4, s, p).st
                   /\ arc_iterator' = Advance(fst, st4, ai4, s, p).ai
                   /\ queue_ops' = queue_ops + 2
                   /\ halt' = HaltAt(b, log', st4)
                   /\ UNCHANGED queue
             ELSE
                 \E b \in VArcRet(opts) :
                   /\ visit' = b
                   /\ vis' = VGreyArc(opts, vis, s, arc)
                   /\ log' = Append(log, Event("GreyArc", s, kNoStateId, arc, b))
                   /\ state_status' = Advance(fst, st4, ai4, s, p).st
                   /\ arc_iterator' = Advance(fst, st4, ai4, s, p).ai
                   /\ queue_ops' = queue_ops + 2
                   /\ halt' = HaltAt(b, log', st4)
                   /\ UNCHANGED queue
    /\ UNCHANGED otherThanVisit
    /\ UNCHANGED <<fst, opts, pc, root, siter>>

\* the queue is empty and access_only is set: the visit ends with the first tree
AccessOnlyBreak ==
    /\ pc = "while"
    /\ queue = <<>>
    /\ opts.access_only
    /\ log' = Append(log, Event("FinishVisit", kNoStateId, kNoStateId, NoArc, TRUE))
    /\ queue_ops' = queue_ops + 1
    /\ pc' = "done"
    /\ UNCHANGED otherThanVisit
    /\ UNCHANGED <<fst, opts, state_status, arc_iterator, nstates, root, visit,
                   queue, siter, vis, halt>>

\* the queue is empty: the next tree root is looked for, among the known
\* states and then, for a non-expanded FST, through the state iterator
NextRoot ==
    /\ pc = "while"
    /\ queue = <<>>
    /\ ~opts.access_only
    /\ LET r == FindRoot(state_status, IF root = fst.start THEN 0 ELSE root + 1, nstates)
           probe == ~fst.expanded /\ r = nstates
           sc == SiterScan(siter, NumStates(fst), nstates)
       IN  /\ root' = r
           /\ siter' = IF probe THEN sc.pos ELSE siter
           /\ nstates' = IF probe /\ sc.found THEN nstates + 1 ELSE nstates
           /\ state_status' = IF probe /\ sc.found
                               THEN Append(state_status, kWhiteState) ELSE state_status
           /\ arc_iterator' = IF probe /\ sc.found
                               THEN Append(arc_iterator, NullIter) ELSE arc_iterator
    /\ queue_ops' = queue_ops + 1
    /\ pc' = "for"
    /\ UNCHANGED otherThanVisit
    /\ UNCHANGED <<fst, opts, visit, queue, vis, log, halt>>

NextVisit ==
    \/ Begin
    \/ BeginNoStart
    \/ TreeRoot
    \/ ForExit
    \/ FinishHead
    \/ VisitArc
    \/ AccessOnlyBreak
    \/ NextRoot

\* the output FST a copy visitor is handed: any content, deleted by InitVisit
StaleOfst == [start |-> 0, arcs |-> << <<>> >>, final |-> <<One>>]

Options(visitors, filters, maxvisits, copies) ==
    [visitor : visitors, queue : {"FIFO", "LIFO"}, filter : filters,
     access_only : BOOLEAN, maxvisit : maxvisits, copy_grey : copies, copy_black : copies]

\* no operation registered, no Apply call, no tool run
\* no EncodeMapper and no EncodeFst has been copied
IdleObjects ==
    /\ mappers = <<>>
    /\ ehandles = <<>>
    /\ eimpls = <<>>

IdleTools ==
    /\ sreg = {}
    /\ sargs = [id |-> 0, ret |-> "none"]
    /\ slast = [op |-> "none"]
    /\ cli = [pc |-> "none"]

\* no ComplementFst and no EncodeMapper is in use
IdleComplement ==
    /\ csrc = [start |-> kNoStateId, arcs |-> <<>>, final |-> <<>>, error |-> FALSE]
    /\ cpc = "idle"
    /\ cprops = {}
    /\ cret = [op |-> "none", arg |-> 0, val |-> 0]
    /\ caiter = [s |-> kNoStateId, pos |-> 0, inner |-> NullIter]
    /\ cseen = <<>>
    /\ csiter = [s |-> kNoStateId, inner |-> 0]
    /\ csseen = <<>>

NullRef == "nullptr"

NoSymbols == "nullptr"

NoTableCall == [op |-> "none"]

\* no call on the table itself, no symbol tables, nothing written or read
IdleTable ==
    /\ tlast = NoTableCall
    /\ tkept = NoTableCall
    /\ esyms = [i |-> NoSymbols, o |-> NoSymbols]
    /\ efst = [stage |-> "none", i |-> NoSymbols, o |-> NoSymbols,
               i0 |-> NoSymbols, o0 |-> NoSymbols, arcs |-> <<>>]
    /\ estrm = <<>>
    /\ rtable = [op |-> "none"]

IdleEncode ==
    /\ eflags = 0
    /\ etable = <<>>
    /\ derror = FALSE
    /\ elast = [op |-> "none", in |-> NoArc, mid |-> NoArc, out |-> NoArc]
    /\ dtab = NullRef
    /\ issued = <<>>
    /\ tflags = 0
    /\ IdleTable

\* the state at the call of Visit(fst, visitor, queue, filter, access_only)
VisitCall(fsts, options) ==
    /\ fst \in fsts
    /\ opts \in options
    /\ pc = "start"
    /\ state_status = <<>>
    /\ arc_iterator = <<>>
    /\ nstates = 0
    /\ root = kNoStateId
    /\ visit = TRUE
    /\ queue = <<>>
    /\ siter = 0
    /\ vis = [ofst |-> StaleOfst, ninit |-> 0, nfinish |-> 0]
    /\ log = <<>>
    /\ queue_ops = 0
    /\ halt = [at |-> 0, grey |-> {}]

\* no Visit is under way
IdleVisit ==
    VisitCall({[start |-> kNoStateId, arcs |-> <<>>, final |-> <<>>, expanded |-> TRUE]},
              {[visitor |-> "generic", queue |-> "FIFO", filter |-> "any",
                access_only |-> FALSE, maxvisit |-> 0, copy_grey |-> TRUE,
                copy_black |-> TRUE]})

InitVisitCall(fsts, options) ==
    /\ VisitCall(fsts, options)
    /\ IdleComplement
    /\ IdleEncode
    /\ IdleTools
    /\ IdleObjects

(***************************************************************************)
(* Visit with a visitor of the caller's own, whose bool callbacks may      *)
(* return true or false at every call.                                     *)
(***************************************************************************)
InitVisitGeneric ==
    InitVisitCall(Fsts({0, 1}, {Zero}, BOOLEAN),
                  Options({"generic"}, {"any", "epsilon"}, {0}, {TRUE}))

SpecVisit == InitVisitGeneric /\ [][NextVisit]_vars

\* the positions in the log of the calls of callback cb for state s
Calls(cb, s) == {i \in 1..Len(log) : log[i].cb = cb /\ log[i].s = s}

\* the positions in the log of the calls of callback cb
CallsOf(cb) == {i \in 1..Len(log) : log[i].cb = cb}

InQueue(s) == \E i \in 1..Len(queue) : queue[i] = s

\* C1: once a bool callback has returned false, every state that was Grey
\* at that moment (a state whose own InitState refused included) is either
\* still Grey, in the queue and not yet finished since, or Black with exactly
\* one FinishState call after the refusal; FinishVisit is called only when
\* all of them are finished, once, as the last callback.
C1_HaltFlushesGrey ==
    halt.at > 0 =>
        /\ log[halt.at].ret = FALSE
        /\ \A s \in halt.grey :
              LET after == {i \in Calls("FinishState", s) : i > halt.at}
              IN  IF s \in GreySet(state_status)
                  THEN after = {} /\ InQueue(s) /\ pc # "done"
                  ELSE Cardinality(after) = 1 /\ state_status[s + 1] = kBlackState
        /\ IF pc = "done"
           THEN /\ CallsOf("FinishVisit") = {Len(log)}
                /\ halt.grey \cap GreySet(state_status) = {}
           ELSE CallsOf("FinishVisit") = {}

\* C1 witness: a halted visit has ended that had two or more Grey states
\* when the callback refused
C1_Witness == pc = "done" /\ halt.at > 0 /\ Cardinality(halt.grey) >= 2

\* C2: on an FST without a start state, however many states it has, Visit
\* makes no call but InitVisit and then FinishVisit, once each, and no call
\* of the queue.
C2_NoStartOnlyInitFinish ==
    fst.start = kNoStateId =>
        /\ queue_ops = 0 /\ queue = <<>>
        /\ \A i \in 1..Len(log) : log[i].cb \in {"InitVisit", "FinishVisit"}
        /\ pc = "done" =>
              /\ Len(log) = 2
              /\ log[1].cb = "InitVisit"
              /\ log[2].cb = "FinishVisit"
        /\ pc # "done" => log = <<>>

\* C2 witness: Visit has returned on an FST with states and no start
C2_Witness == pc = "done" /\ fst.start = kNoStateId /\ NumStates(fst) >= 2

(***************************************************************************)
(* Visit driven by a CopyVisitor with the any-arc filter.                  *)
(***************************************************************************)
InitVisitCopy ==
    InitVisitCall(Fsts({1}, {Zero, One}, BOOLEAN),
                  Options({"copy"}, {"any"}, {0}, {TRUE}))

SpecCopy == InitVisitCopy /\ [][NextVisit]_vars

\* the read view of f as a MutableFst holds it
AsOutput(f) == [start |-> f.start, arcs |-> f.arcs, final |-> f.final]

\* C3 as stated: for every FST, with or without a start state, a finished
\* Visit with a CopyVisitor, the any-arc filter and access_only = false
\* leaves the output with the states, start, final weights and arcs of F.
C3_CopyOfAnyFst ==
    (pc = "done" /\ ~opts.access_only) => vis.ofst = AsOutput(fst)

\* C3 amended: the output has the states, start, final weights and arcs
\* (in order) of F when F has a start state; when F has no start state the
\* output has no state and no start, whatever states F has.
C3_CopyOfStartedFst ==
    (pc = "done" /\ ~opts.access_only) =>
        IF fst.start # kNoStateId
        THEN vis.ofst = AsOutput(fst)
        ELSE vis.ofst = [start |-> kNoStateId, arcs |-> <<>>, final |-> <<>>]

\* C3 witness: the copy of a non-expanded FST has finished that has a final
\* state, a start state with two arcs, one of them to itself, and a state
\* below the start that the start does not reach
C3_Witness ==
    /\ pc = "done" /\ ~opts.access_only /\ ~fst.expanded
    /\ NumStates(fst) >= 2 /\ fst.start = 1
    /\ NumArcs(fst, 1) = 2 /\ NumArcs(fst, 0) = 0
    /\ AIterValue(fst, 1, 0).nextstate = 1 /\ AIterValue(fst, 1, 1).nextstate = 1
    /\ fst.final[2] = One
    /\ vis.ofst = AsOutput(fst)

(***************************************************************************)
(* Visit driven by a PartialVisitor or a PartialCopyVisitor.               *)
(***************************************************************************)
InitVisitPartial ==
    InitVisitCall(Fsts({1}, {Zero}, BOOLEAN),
                  Options({"partial", "partialcopy"}, {"any"}, 1..MaxVisit, BOOLEAN))

SpecPartial == InitVisitPartial /\ [][NextVisit]_vars

\* f is a linear chain: start 0, one arc from each state to the next, none
\* from the last
IsChain(f) ==
    /\ NumStates(f) >= 1
    /\ f.start = 0
    /\ \A s \in 0..(NumStates(f) - 1) :
          IF s = NumStates(f) - 1 THEN NumArcs(f, s) = 0
          ELSE NumArcs(f, s) = 1 /\ AIterValue(f, s, 0).nextstate = s + 1

\* C4: a finished Visit with a partial visitor of limit maxvisit has made at
\* most maxvisit InitState calls; on a linear chain with more than maxvisit
\* states NumInitialized() and NumFinished() are maxvisit and the output of
\* the PartialCopyVisitor has maxvisit states.
C4_PartialCapsInitState ==
    pc = "done" =>
        /\ vis.ninit <= opts.maxvisit
        /\ (IsChain(fst) /\ NumStates(fst) > opts.maxvisit) =>
              /\ vis.ninit = opts.maxvisit
              /\ vis.nfinish = opts.maxvisit
              /\ opts.visitor = "partialcopy" => NumStates(vis.ofst) = opts.maxvisit

(***************************************************************************)
(* ComplementFst (complement.h).  Property bits are kept by name; an FST's *)
(* stored bits are the set of names that are set.                          *)
(***************************************************************************)
Half == "Half"

kError == "kError"

kAcceptor == "kAcceptor"

kUnweighted == "kUnweighted"

kNoEpsilons == "kNoEpsilons"

kIDeterministic == "kIDeterministic"

kILabelSorted == "kILabelSorted"

kFstProperties ==
    {kError, kAcceptor, kUnweighted, kNoEpsilons, kIDeterministic, kILabelSorted}

kCopyProperties == kFstProperties

\* the properties a test of the source FST's states and arcs computes
ComputeProperties(f) ==
    LET arcs == UNION {{f.arcs[s][i] : i \in 1..Len(f.arcs[s])} : s \in 1..Len(f.arcs)}
        finals == {f.final[s] : s \in 1..Len(f.final)}
    IN  (IF \A a \in arcs : a.ilabel = a.olabel THEN {kAcceptor} ELSE {}) \cup
        (IF (\A a \in arcs : a.weight \in {Zero, One}) /\ finals \subseteq {Zero, One}
            THEN {kUnweighted} ELSE {}) \cup
        (IF \A a \in arcs : ~(a.ilabel = 0 /\ a.olabel = 0) THEN {kNoEpsilons} ELSE {}) \cup
        (IF \A s \in 1..Len(f.arcs) : \A i, j \in 1..Len(f.arcs[s]) :
                i # j => f.arcs[s][i].ilabel # f.arcs[s][j].ilabel
            THEN {kIDeterministic} ELSE {})

\* fst.Properties(mask, test) of the source FST: its stored bits, and the
\* computed ones when test is true
FstProperties(f, mask, test) ==
    ((IF f.error THEN {kError} ELSE {}) \cup
     (IF test THEN ComputeProperties(f) ELSE {})) \cap mask

\* FstImpl::SetProperties(props, mask): kError is never cleared
SetProperties(cur, props, mask) ==
    ((cur \ mask) \cup (cur \cap {kError})) \cup (props \cap mask)

ComplementProperties(inprops) ==
    {kAcceptor, kUnweighted, kNoEpsilons, kIDeterministic} \cup
    (inprops \cap {kError, kILabelSorted})

\* ComplementFstImpl(const Fst<A> &fst)
ImplCtor(f) ==
    SetProperties({}, ComplementProperties(FstProperties(f, {kILabelSorted}, FALSE)),
                  kCopyProperties)

\* ComplementFst(const Fst<A> &fst)
ComplementCtor(f) ==
    LET props == {kUnweighted, kNoEpsilons, kIDeterministic, kAcceptor}
    IN  IF FstProperties(f, props, TRUE) # props
            THEN SetProperties(ImplCtor(f), {kError}, {kError})
            ELSE ImplCtor(f)

\* ComplementFstImpl::Properties(mask): the Impl's bits after the call
ImplPropertiesNoPull(cur, mask, f) == cur

ImplPropertiesSet(cur, mask, f) ==
    IF kError \in mask /\ FstProperties(f, {kError}, FALSE) # {}
        THEN SetProperties(cur, {kError}, {kError})
        ELSE cur

\* ComplementFstImpl::Properties(mask): the value returned
ImplProperties(cur, mask, f) == ImplPropertiesSet(cur, mask, f) \cap mask

\* ComplementFstImpl(const ComplementFstImpl<A> &impl)
ImplCopyCtor(cur, f) ==
    SetProperties({}, ImplProperties(cur, kFstProperties, f), kCopyProperties)

\* ComplementFstImpl::Start(), given the bits of the Impl at the call
CStartNoShift(cur, f) ==
    IF ImplProperties(cur, {kError}, f) # {} THEN kNoStateId ELSE f.start

\* a plausible slip: Start() without the test of kError
CStartUnchecked(cur, f) == IF f.start # kNoStateId THEN f.start + 1 ELSE 0

CStart(cur, f) ==
    IF ImplProperties(cur, {kError}, f) # {}
        THEN kNoStateId
        ELSE IF f.start # kNoStateId THEN f.start + 1 ELSE 0

\* ComplementFstImpl::Final(s)
CFinalSame(f, s) == IF s = 0 \/ Final(f, s - 1) = Zero THEN Zero ELSE One

CFinal(f, s) == IF s = 0 \/ Final(f, s - 1) = Zero THEN One ELSE Zero

\* ComplementFstImpl::NumArcs(s)
CNumArcs(f, s) == IF s = 0 THEN 1 ELSE NumArcs(f, s - 1) + 1

(***************************************************************************)
(* ArcIterator<ComplementFst<A>>: [s, pos, inner], inner the position of   *)
(* aiter_ over source state s - 1, NullIter when s is 0.                   *)
(***************************************************************************)
AiCtor(s) == [s |-> s, pos |-> 0, inner |-> IF s # 0 THEN 0 ELSE NullIter]

AiDoneNoRho(f, c) ==
    IF c.s # 0 THEN AIterDone(f, c.s - 1, c.inner) ELSE c.pos > 0

AiDone(f, c) ==
    IF c.s # 0 THEN c.pos > 0 /\ AIterDone(f, c.s - 1, c.inner) ELSE c.pos > 0

AiValueNoShift(f, c) ==
    IF c.pos = 0
        THEN Arc(kRhoLabel, kRhoLabel, One, 0)
        ELSE AIterValue(f, c.s - 1, c.inner)

AiValue(f, c) ==
    IF c.pos = 0
        THEN Arc(kRhoLabel, kRhoLabel, One, 0)
        ELSE [AIterValue(f, c.s - 1, c.inner) EXCEPT !.nextstate = @ + 1]

AiNext(c) ==
    [c EXCEPT !.inner = IF c.s # 0 /\ c.pos > 0 THEN @ + 1 ELSE @, !.pos = @ + 1]

AiReset(c) == [c EXCEPT !.inner = IF c.s # 0 THEN 0 ELSE @, !.pos = 0]

(***************************************************************************)
(* The bounded family of sources a ComplementFst is built from: acceptors  *)
(* over label 1 with final weights Zero and One, taken as they are, or     *)
(* with one departure from the input contract (a weighted arc, an epsilon  *)
(* arc, an arc whose labels differ, a weighted final state), or carrying   *)
(* kError.  Two arcs of one state with the same label make a source        *)
(* nondeterministic.                                                       *)
(***************************************************************************)
Defects ==
    {"none", "weighted_arc", "epsilon_arc", "transducer_arc", "weighted_final", "error"}

Source(f, d) ==
    LET has == \E s \in 0..(NumStates(f) - 1) : NumArcs(f, s) > 0
        s0 == CHOOSE s \in 0..(NumStates(f) - 1) :
                  NumArcs(f, s) > 0 /\ \A u \in 0..(s - 1) : NumArcs(f, u) = 0
        a == f.arcs[s0 + 1][1]
        na == CASE d = "weighted_arc" -> [a EXCEPT !.weight = Half]
                [] d = "epsilon_arc" -> [a EXCEPT !.ilabel = 0, !.olabel = 0]
                [] d = "transducer_arc" -> [a EXCEPT !.olabel = 2]
                [] OTHER -> a
    IN  [start |-> f.start,
         arcs |-> IF has THEN [f.arcs EXCEPT ![s0 + 1][1] = na] ELSE f.arcs,
         final |-> IF d = "weighted_final" /\ NumStates(f) > 0
                       THEN [f.final EXCEPT ![1] = Half] ELSE f.final,
         error |-> d = "error"]

Sources == {Source(f, d) : f \in Fsts({1}, {Zero, One}, {TRUE}), d \in Defects}

NoCall == [op |-> "none", arg |-> 0, val |-> 0]

NoCursor == [s |-> kNoStateId, pos |-> 0, inner |-> NullIter]

NoStateCursor == [s |-> kNoStateId, inner |-> 0]

\* a source FST is at hand and ComplementFst(fst) is about to be constructed
InitComplement ==
    /\ csrc \in Sources
    /\ cpc = "new"
    /\ cprops = {}
    /\ cret = NoCall
    /\ caiter = NoCursor
    /\ cseen = <<>>
    /\ csiter = NoStateCursor
    /\ csseen = <<>>
    /\ IdleVisit
    /\ IdleEncode
    /\ IdleTools
    /\ IdleObjects

\* ComplementFst(fst)
Construct ==
    /\ cpc = "new"
    /\ cpc' = "built"
    /\ cprops' = ComplementCtor(csrc)
    /\ UNCHANGED <<csrc, cret, caiter, cseen, csiter, csseen>>
    /\ UNCHANGED otherThanComplement

\* Start()
CallStart ==
    /\ cpc = "built"
    /\ cprops' = ImplPropertiesSet(cprops, {kError}, csrc)
    /\ cret' = [op |-> "Start", arg |-> 0, val |-> CStart(cprops, csrc)]
    /\ UNCHANGED <<csrc, cpc, caiter, cseen, csiter, csseen>>
    /\ UNCHANGED otherThanComplement

\* Final(s) for a state s of the complement
CallFinal ==
    /\ cpc = "built"
    /\ \E s \in 0..NumStates(csrc) :
           cret' = [op |-> "Final", arg |-> s, val |-> CFinal(csrc, s)]
    /\ UNCHANGED <<csrc, cpc, cprops, caiter, cseen, csiter, csseen>>
    /\ UNCHANGED otherThanComplement

\* NumArcs(s) for a state s of the complement
CallNumArcs ==
    /\ cpc = "built"
    /\ \E s \in 0..NumStates(csrc) :
           cret' = [op |-> "NumArcs", arg |-> s, val |-> CNumArcs(csrc, s)]
    /\ UNCHANGED <<csrc, cpc, cprops, caiter, cseen, csiter, csseen>>
    /\ UNCHANGED otherThanComplement

\* Properties(mask, false)
CallProperties ==
    /\ cpc = "built"
    /\ \E mask \in SUBSET {kError, kAcceptor} :
           /\ cprops' = ImplPropertiesSet(cprops, mask, csrc)
           /\ cret' = [op |-> "Properties", arg |-> mask,
                       val |-> ImplProperties(cprops, mask, csrc)]
    /\ UNCHANGED <<csrc, cpc, caiter, cseen, csiter, csseen>>
    /\ UNCHANGED otherThanComplement

\* Copy(true): the copy, with an Impl of its own, is the FST used from now on
CopySafe ==
    /\ cpc = "built"
    /\ cprops' = ImplCopyCtor(cprops, csrc)
    /\ cret' = [op |-> "Copy", arg |-> 0, val |-> 0]
    /\ UNCHANGED <<csrc, cpc, caiter, cseen, csiter, csseen>>
    /\ UNCHANGED otherThanComplement

NextComplement ==
    \/ Construct
    \/ CallStart
    \/ CallFinal
    \/ CallNumArcs
    \/ CallProperties
    \/ CopySafe

SpecComplement == InitComplement /\ [][NextComplement]_vars

\* ArcIterator<ComplementFst<A>> aiter(fst, s)
NewArcIterator ==
    /\ cpc = "built"
    /\ \E s \in 0..NumStates(csrc) : caiter' = AiCtor(s)
    /\ cseen' = <<>>
    /\ UNCHANGED <<csrc, cpc, cprops, cret, csiter, csseen>>
    /\ UNCHANGED otherThanComplement

\* one turn of the loop for (; !aiter.Done(); aiter.Next()) reading aiter.Value()
ReadNext ==
    /\ caiter.s # kNoStateId
    /\ ~AiDone(csrc, caiter)
    /\ cseen' = Append(cseen, AiValue(csrc, caiter))
    /\ caiter' = AiNext(caiter)
    /\ UNCHANGED <<csrc, cpc, cprops, cret, csiter, csseen>>
    /\ UNCHANGED otherThanComplement

\* aiter.Reset()
ResetIterator ==
    /\ caiter.s # kNoStateId
    /\ caiter' = AiReset(caiter)
    /\ cseen' = <<>>
    /\ UNCHANGED <<csrc, cpc, cprops, cret, csiter, csseen>>
    /\ UNCHANGED otherThanComplement

NextCursor ==
    \/ Construct
    \/ NewArcIterator
    \/ ReadNext
    \/ ResetIterator

SpecCursor == InitComplement /\ [][NextCursor]_vars

(***************************************************************************)
(* Acceptance of a label string, read off the FST interface: from the      *)
(* start state, one arc per symbol, ending in a state whose final weight   *)
(* is not Zero.  In the complement the arcs of a state are those its arc   *)
(* cursor yields, and the kRhoLabel arc is taken exactly when no other arc *)
(* of the state carries the symbol.                                        *)
(***************************************************************************)
Alphabet == {1, 2}

Words == UNION {[1..k -> Alphabet] : k \in 0..MaxWord}

SrcStep(f, S, a) ==
    UNION {{f.arcs[s + 1][i].nextstate : i \in {j \in 1..NumArcs(f, s) :
                                                   f.arcs[s + 1][j].ilabel = a}} : s \in S}

RECURSIVE SrcRun(_, _, _, _)
SrcRun(f, S, w, i) == IF i > Len(w) THEN S ELSE SrcRun(f, SrcStep(f, S, w[i]), w, i + 1)

Accepts(f, w) ==
    /\ f.start # kNoStateId
    /\ \E s \in SrcRun(f, {f.start}, w, 1) : Final(f, s) # Zero

\* the arcs the complement's arc cursor yields from cursor c on
RECURSIVE Drain(_, _)
Drain(f, c) == IF AiDone(f, c) THEN <<>> ELSE <<AiValue(f, c)>> \o Drain(f, AiNext(c))

CStep(f, S, a) ==
    UNION {LET arcs == Drain(f, AiCtor(s))
               named == {i \in 1..Len(arcs) : arcs[i].ilabel = a}
               rho == {i \in 1..Len(arcs) : arcs[i].ilabel = kRhoLabel}
           IN  {arcs[i].nextstate : i \in IF named = {} THEN rho ELSE named} : s \in S}

RECURSIVE CRun(_, _, _, _)
CRun(f, S, w, i) == IF i > Len(w) THEN S ELSE CRun(f, CStep(f, S, w[i]), w, i + 1)

CAccepts(f, start, w) ==
    /\ start # kNoStateId
    /\ \E s \in CRun(f, {start}, w, 1) : CFinal(f, s) # Zero

\* the source meets the input contract of ComplementFst
ValidSource(f) ==
    {kUnweighted, kNoEpsilons, kIDeterministic, kAcceptor} \subseteq ComputeProperties(f)

\* C5 as stated: for every source that is an unweighted, epsilon-free,
\* input-deterministic acceptor and every label string w over the alphabet,
\* the source accepts w if and only if the complement, entered at the state
\* its Start() returns, does not accept w.
C5_ComplementOfValidSource ==
    (cret.op = "Start" /\ ValidSource(csrc)) =>
        \A w \in Words : Accepts(csrc, w) <=> ~CAccepts(csrc, cret.val, w)

\* C5 amended: the same for every such source that does not carry kError;
\* the complement of a source that carries kError has no start state and
\* accepts no string.
C5_ComplementLanguage ==
    (cret.op = "Start" /\ ValidSource(csrc)) =>
        \A w \in Words :
            IF csrc.error
                THEN ~CAccepts(csrc, cret.val, w)
                ELSE Accepts(csrc, w) <=> ~CAccepts(csrc, cret.val, w)

C5_Witness ==
    /\ cret.op = "Start"
    /\ ValidSource(csrc)
    /\ ~csrc.error
    /\ NumStates(csrc) = 2
    /\ Accepts(csrc, <<1>>)
    /\ ~Accepts(csrc, <<>>)
    /\ ~Accepts(csrc, <<1, 1>>)
    /\ CAccepts(csrc, cret.val, <<2>>)

\* the arcs the complement is to show at state s
ExpectedArcs(f, s) ==
    IF s = 0
        THEN <<Arc(kRhoLabel, kRhoLabel, One, 0)>>
        ELSE <<Arc(kRhoLabel, kRhoLabel, One, 0)>> \o
             [i \in 1..Len(f.arcs[s]) |->
                 Arc(f.arcs[s][i].ilabel, f.arcs[s][i].olabel, f.arcs[s][i].weight,
                     f.arcs[s][i].nextstate + 1)]

\* C6: a loop over the arc cursor of complement state s reads the kRhoLabel
\* arc (kRhoLabel, kRhoLabel, One, 0) first and then, for s > 0, the arcs of
\* source state s - 1 in source order with nextstate increased by one and
\* the other fields unchanged; the cursor is done exactly when NumArcs(s)
\* arcs have been read, and NumArcs(s) is 1 for s = 0 and the source's
\* NumArcs(s - 1) + 1 for s > 0.
C6_ArcCursor ==
    caiter.s # kNoStateId =>
        LET exp == ExpectedArcs(csrc, caiter.s)
        IN  /\ Len(cseen) <= Len(exp)
            /\ cseen = SubSeq(exp, 1, Len(cseen))
            /\ AiDone(csrc, caiter) <=> Len(cseen) = CNumArcs(csrc, caiter.s)
            /\ CNumArcs(csrc, caiter.s) =
                   IF caiter.s = 0 THEN 1 ELSE Len(csrc.arcs[caiter.s]) + 1

C6_Witness ==
    /\ caiter.s = 1
    /\ AiDone(csrc, caiter)
    /\ Len(cseen) = 3
    /\ cseen[2].nextstate = 2
    /\ cseen[3].nextstate = 1
    /\ cseen[2].olabel = 2

\* C7 as stated: Start() returns s0 + 1 when the source has start state
\* s0 >= 0 and 0 when the source has no start state, whatever the source.
C7_StartOfAnySource ==
    cret.op = "Start" =>
        cret.val = IF csrc.start >= 0 THEN csrc.start + 1 ELSE 0

\* C7 amended: Start() returns s0 + 1, or 0 when the source has no start
\* state, for every source that meets the input contract and carries no
\* kError; for every other source the complement carries kError and Start()
\* returns kNoStateId.
C7_Start ==
    cret.op = "Start" =>
        cret.val = IF ValidSource(csrc) /\ ~csrc.error
                       THEN IF csrc.start >= 0 THEN csrc.start + 1 ELSE 0
                       ELSE kNoStateId

C7_Witness ==
    /\ cret.op = "Start"
    /\ ValidSource(csrc)
    /\ ~csrc.error
    /\ csrc.start = 1
    /\ cret.val = 2

\* C8: Final(0) is One; for s > 0 Final(s) is One when the source's
\* Final(s - 1) is Zero and Zero otherwise, also for a source whose final
\* weight is neither Zero nor One.
C8_Final ==
    cret.op = "Final" =>
        /\ cret.val \in {One, Zero}
        /\ cret.arg = 0 => cret.val = One
        /\ cret.arg > 0 => (cret.val = One <=> csrc.final[cret.arg] = Zero)

C8_Witness ==
    /\ cret.op = "Final"
    /\ cret.arg = 1
    /\ csrc.final[1] = Half
    /\ cret.val = Zero

\* C9: a complement built from a source that is not an unweighted,
\* epsilon-free, input-deterministic acceptor carries kError from its
\* construction on, through every later call and in every safe copy; every
\* Properties query whose mask includes kError reports kError for such a
\* source and for a source that itself carries kError; a kError bit once
\* set on the complement is set ever after.
C9_ErrorIsSticky ==
    /\ [](cpc = "built" =>
            /\ ~ValidSource(csrc) => kError \in cprops
            /\ (/\ cret.op = "Properties"
                /\ kError \in cret.arg
                /\ (~ValidSource(csrc) \/ csrc.error)) => kError \in cret.val)
    /\ [][(kError \in cprops) => (kError \in cprops')]_vars

C9_Witness ==
    /\ cret.op = "Properties"
    /\ cret.arg = {kError}
    /\ cret.val = {kError}
    /\ csrc.error
    /\ ValidSource(csrc)

(***************************************************************************)
(* EncodeTable and EncodeMapper (encode.h).  The table is its flags and    *)
(* encode_tuples_; encode_hash_ maps each tuple of encode_tuples_ to its   *)
(* position, so a lookup in it is a search of encode_tuples_ by TupleEqual.*)
(***************************************************************************)
HasFlag(flags, bit) == (flags \div bit) % 2 = 1

Tuple(il, ol, w) == [ilabel |-> il, olabel |-> ol, weight |-> w]

NullTuple == Tuple(kNoLabel, kNoLabel, NoWeight)

TupleEqual(x, y) == x.ilabel = y.ilabel /\ x.olabel = y.olabel /\ x.weight = y.weight

\* the Tuple that Encode and GetLabel build from an arc
ArcTupleNoMask(flags, arc) == Tuple(arc.ilabel, arc.olabel, arc.weight)

ArcTuple(flags, arc) ==
    Tuple(arc.ilabel,
          IF HasFlag(flags, kEncodeLabels) THEN arc.olabel ELSE 0,
          IF HasFlag(flags, kEncodeWeights) THEN arc.weight ELSE One)

\* encode_hash_.find: the label of an equal tuple, 0 when there is none
HashFind(tuples, tp) ==
    IF \E k \in 1..Len(tuples) : TupleEqual(tuples[k], tp)
        THEN CHOOSE k \in 1..Len(tuples) : TupleEqual(tuples[k], tp)
        ELSE 0

\* EncodeTable::Encode(arc): the label returned and encode_tuples_ after it
TableEncodePrepend(flags, tuples, arc) ==
    LET tp == ArcTuple(flags, arc)
        k == HashFind(tuples, tp)
    IN  IF k = 0
            THEN [label |-> 1, tuples |-> <<tp>> \o tuples]
            ELSE [label |-> k, tuples |-> tuples]

TableEncode(flags, tuples, arc) ==
    LET tp == ArcTuple(flags, arc)
        k == HashFind(tuples, tp)
    IN  IF k = 0
            THEN [label |-> Len(tuples) + 1, tuples |-> Append(tuples, tp)]
            ELSE [label |-> k, tuples |-> tuples]

\* EncodeTable::GetLabel(arc)
TableGetLabelAppend(flags, tuples, arc) ==
    LET k == HashFind(tuples, ArcTuple(flags, arc))
    IN  IF k = 0 THEN Len(tuples) + 1 ELSE k

TableGetLabel(flags, tuples, arc) ==
    LET k == HashFind(tuples, ArcTuple(flags, arc))
    IN  IF k = 0 THEN kNoLabel ELSE k

\* EncodeTable::Size()
TableSize(tuples) == Len(tuples)

\* EncodeTable::Decode(key): the tuple, NullTuple for nullptr
TableDecodeFirst(tuples, key) ==
    IF key < 1 \/ key > Len(tuples) THEN NullTuple ELSE tuples[1]

TableDecode(tuples, key) ==
    IF key < 1 \/ key > Len(tuples) THEN NullTuple ELSE tuples[key]

\* EncodeMapper::operator(), ENCODE: the condition under which the arc is
\* returned as it is
EncodeSkipsAllFinal(flags, arc) == arc.nextstate = kNoStateId

EncodeSkips(flags, arc) ==
    \/ (arc.nextstate = kNoStateId /\ ~HasFlag(flags, kEncodeWeights))
    \/ (arc.nextstate = kNoStateId /\ HasFlag(flags, kEncodeWeights)
            /\ arc.weight = Zero)

\* EncodeMapper::operator(), ENCODE: the arc built from the label
EncodedArcKeepWeight(flags, label, arc) ==
    Arc(label, IF HasFlag(flags, kEncodeLabels) THEN label ELSE arc.olabel,
        arc.weight, arc.nextstate)

EncodedArc(flags, label, arc) ==
    Arc(label,
        IF HasFlag(flags, kEncodeLabels) THEN label ELSE arc.olabel,
        IF HasFlag(flags, kEncodeWeights) THEN One ELSE arc.weight,
        arc.nextstate)

\* EncodeMapper::operator(), DECODE: the two tests that set error_
DecodeMalformed(flags, arc) ==
    \/ (HasFlag(flags, kEncodeLabels) /\ arc.ilabel # arc.olabel)
    \/ (HasFlag(flags, kEncodeWeights) /\ arc.weight # One)

\* EncodeMapper::operator(), DECODE: the arc returned when Decode fails
DecodeMissKeep(arc) == arc

DecodeMiss(arc) == Arc(kNoLabel, kNoLabel, NoWeight, arc.nextstate)

\* EncodeMapper::operator()(arc): the arc returned, the shared table and
\* the mapper's error_ after the call
MapperCall(type, flags, tuples, error, arc) ==
    IF type = ENCODE
        THEN IF EncodeSkips(flags, arc)
                 THEN [arc |-> arc, tuples |-> tuples, error |-> error]
                 ELSE LET e == TableEncode(flags, tuples, arc)
                      IN  [arc |-> EncodedArc(flags, e.label, arc),
                           tuples |-> e.tuples,
                           error |-> error]
        ELSE IF arc.nextstate = kNoStateId \/ arc.ilabel = 0
                 THEN [arc |-> arc, tuples |-> tuples, error |-> error]
                 ELSE LET bad == DecodeMalformed(flags, arc)
                          tuple == TableDecode(tuples, arc.ilabel)
                      IN  IF tuple = NullTuple
                              THEN [arc |-> DecodeMiss(arc),
                                    tuples |-> tuples,
                                    error |-> TRUE]
                              ELSE [arc |-> Arc(tuple.ilabel,
                                                IF HasFlag(flags, kEncodeLabels)
                                                    THEN tuple.olabel ELSE arc.olabel,
                                                IF HasFlag(flags, kEncodeWeights)
                                                    THEN tuple.weight ELSE arc.weight,
                                                arc.nextstate),
                                    tuples |-> tuples,
                                    error |-> error \/ bad]

\* EncodeMapper::FinalAction()
FinalAction(type, flags) ==
    IF type = ENCODE /\ HasFlag(flags, kEncodeWeights)
        THEN "MAP_REQUIRE_SUPERFINAL"
        ELSE "MAP_NO_SUPERFINAL"

\* the property masks of properties.h, over the properties named here
kILabelInvariantProperties == {kError, kUnweighted}

kOLabelInvariantProperties == {kError, kUnweighted}

kWeightInvariantProperties == {kError, kAcceptor, kNoEpsilons, kIDeterministic, kILabelSorted}

kAddSuperFinalProperties == {kError, kAcceptor, kILabelSorted, kUnweighted}

kRmSuperFinalProperties == {kError, kAcceptor, kIDeterministic, kNoEpsilons, kILabelSorted, kUnweighted}

\* EncodeMapper::Properties(inprops)
MapperPropertiesNoError(type, flags, error, inprops) ==
    LET mask1 == IF HasFlag(flags, kEncodeLabels)
                     THEN kFstProperties \cap kILabelInvariantProperties
                              \cap kOLabelInvariantProperties
                     ELSE kFstProperties
        mask == IF HasFlag(flags, kEncodeWeights)
                    THEN mask1 \cap kILabelInvariantProperties
                             \cap kWeightInvariantProperties
                             \cap (IF type = ENCODE THEN kAddSuperFinalProperties
                                                    ELSE kRmSuperFinalProperties)
                    ELSE mask1
    IN  inprops \cap mask

MapperProperties(type, flags, error, inprops) ==
    LET outprops == IF error THEN inprops \cup {kError} ELSE inprops
        mask1 == IF HasFlag(flags, kEncodeLabels)
                     THEN kFstProperties \cap kILabelInvariantProperties
                              \cap kOLabelInvariantProperties
                     ELSE kFstProperties
        mask == IF HasFlag(flags, kEncodeWeights)
                    THEN mask1 \cap kILabelInvariantProperties
                             \cap kWeightInvariantProperties
                             \cap (IF type = ENCODE THEN kAddSuperFinalProperties
                                                    ELSE kRmSuperFinalProperties)
                    ELSE mask1
    IN  outprops \cap mask

\* the arcs handed to the ENCODE mapper, super-final arcs among them
EncoderArcs ==
    {Arc(il, ol, w, ns) : il \in {0, 1}, ol \in {0, 1}, w \in {Zero, One, Half},
                          ns \in {kNoStateId, 0}}

\* the arcs handed to the DECODE mapper
DecoderArcs ==
    {Arc(il, ol, w, ns) : il \in {kNoLabel} \cup 0..(MaxTuples + 1), ol \in {0, 1},
                          w \in {One, Half},
                          ns \in {kNoStateId, 0}}

\* the one EncodeTable object, held in tflags, etable and esyms
TheTable == "table"

\* EncodeMapper(flags, type): the members flags_, type_, table_, error_
MapperCtor(flags, type) ==
    [flags |-> flags, type |-> type, table |-> TheTable, error |-> FALSE]

\* a plausible slip: the copy constructor takes error_ over as well
MapperCopyKeepError(mapper) ==
    [flags |-> mapper.flags, type |-> mapper.type, table |-> mapper.table,
     error |-> mapper.error]

\* EncodeMapper(const EncodeMapper &mapper)
MapperCopy(mapper) ==
    [flags |-> mapper.flags, type |-> mapper.type, table |-> mapper.table,
     error |-> FALSE]

\* EncodeMapper(const EncodeMapper &mapper, EncodeType type)
MapperCopyOwnTable(mapper, type) ==
    [flags |-> mapper.flags, type |-> type, table |-> "own", error |-> mapper.error]

MapperCopyType(mapper, type) ==
    [flags |-> mapper.flags, type |-> type, table |-> mapper.table,
     error |-> mapper.error]

\* encode_tuples_ of the table a mapper's table_ points to; a table of a
\* mapper's own, which nothing encodes into, is empty
TableOf(ref) == IF ref = TheTable THEN etable ELSE <<>>

EncodeFlags == {0, kEncodeLabels, kEncodeWeights, kEncodeLabels + kEncodeWeights}

\* EncodeMapper encoder(flags, ENCODE) and EncodeMapper decoder(encoder, DECODE)
InitEncode ==
    /\ \E flags \in EncodeFlags :
           LET encoder == MapperCtor(flags, ENCODE)
               decoder == MapperCopyType(encoder, DECODE)
           IN  /\ eflags = flags
               /\ tflags = flags
               /\ derror = decoder.error
               /\ dtab = decoder.table
    /\ etable = <<>>
    /\ elast = [op |-> "none", in |-> NoArc, mid |-> NoArc, out |-> NoArc]
    /\ issued = <<>>
    /\ IdleTable
    /\ IdleVisit
    /\ IdleComplement
    /\ IdleTools
    /\ IdleObjects

\* encoder(arc)
EncodeArc ==
    /\ \E a \in EncoderArcs :
           LET r == MapperCall(ENCODE, eflags, etable, FALSE, a)
           IN  /\ Len(r.tuples) <= MaxTuples
               /\ etable' = r.tuples
               /\ elast' = [op |-> "encode", in |-> a, mid |-> NoArc, out |-> r.arc]
    /\ UNCHANGED <<eflags, derror, dtab, issued, tflags>>
    /\ UNCHANGED <<tableCallVars, symbolVars, streamVars>>
    /\ UNCHANGED otherThanEncode

\* decoder(arc) on the arc the encoder has just returned
DecodeEncoded ==
    /\ elast.op = "encode"
    /\ LET r == MapperCall(DECODE, eflags, TableOf(dtab), derror, elast.out)
       IN  /\ derror' = r.error
           /\ elast' = [op |-> "roundtrip", in |-> elast.in, mid |-> elast.out,
                        out |-> r.arc]
    /\ UNCHANGED <<eflags, etable, dtab, issued, tflags>>
    /\ UNCHANGED <<tableCallVars, symbolVars, streamVars>>
    /\ UNCHANGED otherThanEncode

\* decoder(arc) on any arc
DecodeArc ==
    /\ \E b \in DecoderArcs :
           LET r == MapperCall(DECODE, eflags, TableOf(dtab), derror, b)
           IN  /\ derror' = r.error
               /\ elast' = [op |-> "decode", in |-> b, mid |-> NoArc, out |-> r.arc]
    /\ UNCHANGED <<eflags, etable, dtab, issued, tflags>>
    /\ UNCHANGED <<tableCallVars, symbolVars, streamVars>>
    /\ UNCHANGED otherThanEncode

\* encoder.FinalAction() or decoder.FinalAction()
QueryFinalAction ==
    /\ \E type \in {ENCODE, DECODE} :
           elast' = [op |-> "FinalAction", type |-> type,
                     ret |-> FinalAction(type, eflags)]
    /\ UNCHANGED <<eflags, etable, derror, dtab, issued, tflags>>
    /\ UNCHANGED <<tableCallVars, symbolVars, streamVars>>
    /\ UNCHANGED otherThanEncode

\* the property sets handed to Properties(inprops)
InProps == {{}, {kError}, {kAcceptor, kUnweighted}}

\* decoder.Properties(inprops)
QueryProperties ==
    /\ \E inprops \in InProps :
           elast' = [op |-> "Properties", inprops |-> inprops,
                     ret |-> MapperProperties(DECODE, eflags, derror, inprops)]
    /\ UNCHANGED <<eflags, etable, derror, dtab, issued, tflags>>
    /\ UNCHANGED <<tableCallVars, symbolVars, streamVars>>
    /\ UNCHANGED otherThanEncode

NextEncode ==
    \/ EncodeArc
    \/ DecodeEncoded
    \/ DecodeArc
    \/ QueryFinalAction
    \/ QueryProperties

SpecEncode == InitEncode /\ [][NextEncode]_vars

\* C10 as stated: for every arc a, super-final arcs included, and every
\* combination of the LABELS and WEIGHTS flags, the DECODE mapper applied
\* to what the ENCODE mapper returned for a returns an arc equal to a.
C10_RoundTripOfAnyArc ==
    elast.op = "roundtrip" => elast.out = elast.in

\* the super-final arcs the ENCODE mapper encodes
EncodedSuperFinal(flags, a) ==
    a.nextstate = kNoStateId /\ HasFlag(flags, kEncodeWeights) /\ a.weight # Zero

\* C10 amended: the round trip returns a for every real arc and for every
\* super-final arc the ENCODE mapper passes through (WEIGHTS not set, or
\* weight Zero); a super-final arc that the ENCODE mapper encodes (WEIGHTS
\* set, weight not Zero) comes back from the DECODE mapper as the encoded
\* arc (k, k or a's olabel, One, kNoStateId), k the label of a's tuple.
C10_RoundTrip ==
    elast.op = "roundtrip" =>
        IF EncodedSuperFinal(eflags, elast.in)
            THEN /\ elast.out = elast.mid
                 /\ elast.out.ilabel = HashFind(etable, ArcTuple(eflags, elast.in))
                 /\ elast.out.weight = One
                 /\ elast.out.nextstate = kNoStateId
            ELSE elast.out = elast.in

C10_Witness ==
    /\ elast.op = "roundtrip"
    /\ eflags = kEncodeLabels + kEncodeWeights
    /\ elast.in = Arc(1, 0, Half, 0)
    /\ elast.mid = Arc(2, 2, One, 0)
    /\ elast.out = elast.in

(***************************************************************************)
(* Calls on an EncodeTable itself: Encode, GetLabel and Decode in any      *)
(* order.  tlast is the last call; tkept is an Encode call made earlier    *)
(* (or the last one), kept to compare labels; issued lists, in order, the  *)
(* Encode calls that returned a label no earlier call had returned.        *)
(***************************************************************************)
TableArcs ==
    {Arc(1, 1, One, 0), Arc(2, 1, One, 0), Arc(1, 2, One, 0), Arc(1, 1, Half, 0),
     Arc(2, 1, Half, 0), Arc(1, 1, One, 1)}

\* EncodeTable table(flags)
InitTable ==
    /\ tflags \in EncodeFlags
    /\ eflags = tflags
    /\ etable = <<>>
    /\ derror = FALSE
    /\ elast = [op |-> "none", in |-> NoArc, mid |-> NoArc, out |-> NoArc]
    /\ dtab = NullRef
    /\ issued = <<>>
    /\ IdleTable
    /\ IdleVisit
    /\ IdleComplement
    /\ IdleTools
    /\ IdleObjects

\* table.Encode(arc)
CallEncode ==
    /\ \E a \in TableArcs, keep \in BOOLEAN :
           LET r == TableEncode(tflags, etable, a)
               call == [op |-> "Encode", arc |-> a, ret |-> r.label,
                        size0 |-> TableSize(etable)]
           IN  /\ Len(r.tuples) <= MaxTuples
               /\ etable' = r.tuples
               /\ tlast' = call
               /\ tkept' = IF keep THEN call ELSE tkept
               /\ issued' = IF \E i \in 1..Len(issued) : issued[i].label = r.label
                                THEN issued
                                ELSE Append(issued, [arc |-> a, label |-> r.label])
    /\ UNCHANGED <<eflags, derror, elast, dtab, tflags>>
    /\ UNCHANGED <<symbolVars, streamVars>>
    /\ UNCHANGED otherThanEncode

\* table.GetLabel(arc)
CallGetLabel ==
    /\ \E a \in TableArcs :
           tlast' = [op |-> "GetLabel", arc |-> a,
                     ret |-> TableGetLabel(tflags, etable, a)]
    /\ UNCHANGED <<eflags, etable, derror, elast, dtab, issued, tkept, tflags>>
    /\ UNCHANGED <<symbolVars, streamVars>>
    /\ UNCHANGED otherThanEncode

\* table.Decode(key)
CallDecode ==
    /\ \E key \in 0..(MaxTuples + 1) :
           tlast' = [op |-> "Decode", key |-> key, ret |-> TableDecode(etable, key)]
    /\ UNCHANGED <<eflags, etable, derror, elast, dtab, issued, tkept, tflags>>
    /\ UNCHANGED <<symbolVars, streamVars>>
    /\ UNCHANGED otherThanEncode

NextTable ==
    \/ CallEncode
    \/ CallGetLabel
    \/ CallDecode

SpecTable == InitTable /\ [][NextTable]_vars

\* C11 as stated: two Encode calls return the same label if and only if
\* their arcs agree on the fields the flags select, the two labels when
\* LABELS is set and the weight when WEIGHTS is set.
C11_SameLabelIffSelectedAgree ==
    (tlast.op = "Encode" /\ tkept.op = "Encode") =>
        (tlast.ret = tkept.ret <=>
            /\ HasFlag(tflags, kEncodeLabels) =>
                   /\ tlast.arc.ilabel = tkept.arc.ilabel
                   /\ tlast.arc.olabel = tkept.arc.olabel
            /\ HasFlag(tflags, kEncodeWeights) => tlast.arc.weight = tkept.arc.weight)

\* C11 amended: two Encode calls return the same label if and only if
\* their arcs have the same ilabel, the same olabel when LABELS is set and
\* the same weight when WEIGHTS is set; the ilabel counts under every flag
\* setting, the nextstate never.
C11_SameLabelIffTupleAgree ==
    (tlast.op = "Encode" /\ tkept.op = "Encode") =>
        (tlast.ret = tkept.ret <=>
            /\ tlast.arc.ilabel = tkept.arc.ilabel
            /\ HasFlag(tflags, kEncodeLabels) => tlast.arc.olabel = tkept.arc.olabel
            /\ HasFlag(tflags, kEncodeWeights) => tlast.arc.weight = tkept.arc.weight)

C11_Witness ==
    /\ tflags = kEncodeWeights
    /\ tlast.op = "Encode"
    /\ tkept.op = "Encode"
    /\ tlast.arc = Arc(1, 1, One, 1)
    /\ tkept.arc = Arc(1, 2, One, 0)
    /\ tkept.size0 = 0
    /\ tlast.size0 = 2
    /\ tlast.ret = 1
    /\ tkept.ret = 1

\* the tuple an arc stands for under the flags
MaskedTuple(flags, arc) ==
    [ilabel |-> arc.ilabel,
     olabel |-> IF HasFlag(flags, kEncodeLabels) THEN arc.olabel ELSE 0,
     weight |-> IF HasFlag(flags, kEncodeWeights) THEN arc.weight ELSE One]

\* C12: after any sequence of Encode, GetLabel and Decode calls the labels
\* issued are 1..Size() in the order of first issue, the k-th new tuple has
\* label k and Decode(k) returns it, an Encode call returns a label in
\* 1..Size() and grows the table by at most one; no call makes the table
\* shrink or changes what Decode(k) returns for a k <= Size().
C12_AppendOnly ==
    /\ [](/\ Len(issued) = TableSize(etable)
          /\ \A k \in 1..Len(issued) :
                 /\ issued[k].label = k
                 /\ TableDecode(etable, k) = MaskedTuple(tflags, issued[k].arc)
          /\ tlast.op = "Encode" =>
                 /\ tlast.ret \in 1..TableSize(etable)
                 /\ TableSize(etable) - tlast.size0 \in {0, 1})
    /\ [][/\ TableSize(etable') \in {TableSize(etable), TableSize(etable) + 1}
          /\ \A k \in 1..TableSize(etable) :
                 TableDecode(etable', k) = TableDecode(etable, k)]_vars

C12_Witness ==
    /\ Len(issued) = 2
    /\ tflags = kEncodeLabels
    /\ issued[1].arc = Arc(2, 1, Half, 0)
    /\ issued[2].arc = Arc(1, 1, One, 1)
    /\ tlast.op = "Decode"
    /\ tlast.key = 2
    /\ tlast.ret = Tuple(1, 1, One)

\* C19: lookups do not mutate.  GetLabel(arc) returns the label Encode(arc)
\* would return when the arc's tuple has been issued a label and kNoLabel
\* otherwise; Decode(key) returns null for key < 1 or key > Size(); a
\* GetLabel or Decode call leaves Size(), the stored tuples, the flags and
\* the result of every other lookup as they were.
C19_LookupsDoNotMutate ==
    /\ [](/\ tlast.op = "GetLabel" =>
                 IF \E k \in 1..Len(issued) :
                        MaskedTuple(tflags, issued[k].arc) = MaskedTuple(tflags, tlast.arc)
                     THEN /\ tlast.ret \in 1..Len(issued)
                          /\ MaskedTuple(tflags, issued[tlast.ret].arc)
                                 = MaskedTuple(tflags, tlast.arc)
                          /\ TableEncode(tflags, etable, tlast.arc)
                                 = [label |-> tlast.ret, tuples |-> etable]
                     ELSE tlast.ret = kNoLabel
          /\ tlast.op = "Decode" /\ (tlast.key < 1 \/ tlast.key > TableSize(etable)) =>
                 tlast.ret = NullTuple)
    /\ [][tlast'.op \in {"GetLabel", "Decode"} =>
              /\ etable' = etable
              /\ tflags' = tflags
              /\ TableSize(etable') = TableSize(etable)
              /\ \A a \in TableArcs :
                     TableGetLabel(tflags', etable', a) = TableGetLabel(tflags, etable, a)
              /\ \A key \in 0..(MaxTuples + 1) :
                     TableDecode(etable', key) = TableDecode(etable, key)]_vars

C19_Witness ==
    /\ tkept.op = "Encode"
    /\ tkept.ret = 2
    /\ tlast.op = "GetLabel"
    /\ tlast.ret = 2
    /\ tlast.arc # tkept.arc
    /\ TableSize(etable) = 2

(***************************************************************************)
(* An ENCODE mapper and a DECODE mapper made from it while it is in use.    *)
(* The encoder is EncodeMapper(flags, ENCODE); dtab is the decoder's table_ *)
(* (NullRef before the decoder exists), derror its error_; tkept records    *)
(* Size() of the table when the decoder was constructed; issued lists the   *)
(* encoder's calls that returned a new label, with the arc returned.        *)
(***************************************************************************)
\* EncodeMapper encoder(flags, ENCODE)
InitShared ==
    /\ eflags \in EncodeFlags
    /\ tflags = eflags
    /\ etable = <<>>
    /\ derror = FALSE
    /\ dtab = NullRef
    /\ elast = [op |-> "none", in |-> NoArc, mid |-> NoArc, out |-> NoArc]
    /\ issued = <<>>
    /\ IdleTable
    /\ IdleVisit
    /\ IdleComplement
    /\ IdleTools
    /\ IdleObjects

\* encoder(arc)
SharedEncode ==
    /\ \E a \in TableArcs :
           LET r == MapperCall(ENCODE, eflags, etable, FALSE, a)
           IN  /\ Len(r.tuples) <= MaxTuples
               /\ etable' = r.tuples
               /\ elast' = [op |-> "encode", in |-> a, mid |-> NoArc, out |-> r.arc]
               /\ issued' = IF Len(r.tuples) > Len(etable)
                                THEN Append(issued, [arc |-> a, label |-> r.arc.ilabel,
                                                     out |-> r.arc])
                                ELSE issued
    /\ UNCHANGED <<eflags, derror, dtab, tflags>>
    /\ UNCHANGED <<tableCallVars, symbolVars, streamVars>>
    /\ UNCHANGED otherThanEncode

\* EncodeMapper decoder(encoder, DECODE)
MakeDecoder ==
    /\ dtab = NullRef
    /\ LET decoder == MapperCopyType(MapperCtor(eflags, ENCODE), DECODE)
       IN  /\ dtab' = decoder.table
           /\ derror' = decoder.error
    /\ tkept' = [op |-> "EncodeMapper", size0 |-> TableSize(etable)]
    /\ elast' = [op |-> "none", in |-> NoArc, mid |-> NoArc, out |-> NoArc]
    /\ UNCHANGED <<eflags, etable, issued, tflags, tlast>>
    /\ UNCHANGED <<symbolVars, streamVars>>
    /\ UNCHANGED otherThanEncode

\* decoder(arc) on an arc the encoder returned with a new label
DecodeIssued ==
    /\ dtab # NullRef
    /\ \E k \in 1..Len(issued) :
           LET r == MapperCall(DECODE, eflags, TableOf(dtab), derror, issued[k].out)
           IN  /\ derror' = r.error
               /\ elast' = [op |-> "decode", in |-> issued[k].arc,
                            mid |-> issued[k].out, out |-> r.arc]
    /\ UNCHANGED <<eflags, etable, dtab, issued, tflags>>
    /\ UNCHANGED <<tableCallVars, symbolVars, streamVars>>
    /\ UNCHANGED otherThanEncode

NextShared ==
    \/ SharedEncode
    \/ MakeDecoder
    \/ DecodeIssued

SpecShared == InitShared /\ [][NextShared]_vars

\* C13: a DECODE mapper constructed from an ENCODE mapper has the very same
\* table: under every interleaving of encoder and decoder calls, each label
\* the encoder has returned so far, also one issued after the decoder was
\* constructed, is a key of the decoder's table, decodes to the tuple that
\* was encoded and maps back to the encoded arc without setting the error
\* flag.
C13_DecoderSharesTable ==
    dtab # NullRef =>
        /\ dtab = TheTable
        /\ ~derror
        /\ \A k \in 1..Len(issued) :
               /\ TableDecode(TableOf(dtab), issued[k].label)
                      = MaskedTuple(eflags, issued[k].arc)
               /\ MapperCall(DECODE, eflags, TableOf(dtab), derror, issued[k].out)
                      = [arc |-> issued[k].arc, tuples |-> TableOf(dtab),
                         error |-> FALSE]
        /\ elast.op = "decode" => elast.out = elast.in

C13_Witness ==
    /\ dtab # NullRef
    /\ tkept.op = "EncodeMapper"
    /\ tkept.size0 = 1
    /\ Len(issued) = 2
    /\ elast.op = "decode"
    /\ elast.mid.ilabel = 2
    /\ elast.out = issued[2].arc
    /\ ~derror

\* C15: an ENCODE mapper applied to a real arc (nextstate # kNoStateId)
\* returns the arc whose ilabel is the label k the table gives the arc,
\* whose olabel is k if LABELS is set and arc.olabel otherwise, whose weight
\* is One if WEIGHTS is set and arc.weight otherwise and whose nextstate is
\* arc.nextstate; k >= 1, so the encoded arc is never an epsilon arc.
C15_EncodeRealArc ==
    (elast.op = "encode" /\ elast.in.nextstate # kNoStateId) =>
        LET k == elast.out.ilabel
        IN  /\ k >= 1
            /\ k # 0
            /\ k = TableGetLabel(eflags, etable, elast.in)
            /\ TableEncode(eflags, etable, elast.in) = [label |-> k, tuples |-> etable]
            /\ TableDecode(etable, k) = MaskedTuple(eflags, elast.in)
            /\ elast.out.olabel = IF HasFlag(eflags, kEncodeLabels)
                                      THEN k ELSE elast.in.olabel
            /\ elast.out.weight = IF HasFlag(eflags, kEncodeWeights)
                                      THEN One ELSE elast.in.weight
            /\ elast.out.nextstate = elast.in.nextstate

C15_Witness ==
    /\ elast.op = "encode"
    /\ eflags = kEncodeWeights
    /\ elast.in = Arc(0, 1, Half, 0)
    /\ elast.out = Arc(2, 1, One, 0)

\* C16: an ENCODE mapper applied to a super-final arc (nextstate =
\* kNoStateId) returns the arc as it is and leaves the table as it is,
\* except when WEIGHTS is set and the arc's weight is not Zero: then the arc
\* is encoded like a real arc.  FinalAction() is MAP_REQUIRE_SUPERFINAL
\* exactly for a mapper of type ENCODE with WEIGHTS set, MAP_NO_SUPERFINAL
\* otherwise.
C16_EncodeSuperFinal ==
    /\ [](/\ (elast.op = "encode" /\ elast.in.nextstate = kNoStateId) =>
                 IF HasFlag(eflags, kEncodeWeights) /\ elast.in.weight # Zero
                     THEN LET k == elast.out.ilabel
                          IN  /\ k \in 1..TableSize(etable)
                              /\ TableDecode(etable, k) = MaskedTuple(eflags, elast.in)
                              /\ elast.out.olabel = IF HasFlag(eflags, kEncodeLabels)
                                                        THEN k ELSE elast.in.olabel
                              /\ elast.out.weight = One
                              /\ elast.out.nextstate = kNoStateId
                     ELSE elast.out = elast.in
          /\ elast.op = "FinalAction" =>
                 /\ elast.ret \in {"MAP_REQUIRE_SUPERFINAL", "MAP_NO_SUPERFINAL"}
                 /\ elast.ret = "MAP_REQUIRE_SUPERFINAL" <=>
                        (elast.type = ENCODE /\ HasFlag(eflags, kEncodeWeights)))
    /\ [][(/\ elast'.op = "encode"
           /\ elast'.in.nextstate = kNoStateId
           /\ ~(HasFlag(eflags, kEncodeWeights) /\ elast'.in.weight # Zero))
              => (etable' = etable)]_vars

C16_Witness ==
    /\ elast.op = "encode"
    /\ eflags = kEncodeWeights
    /\ elast.in = Arc(0, 0, Half, kNoStateId)
    /\ elast.out = Arc(1, 0, One, kNoStateId)
    /\ TableSize(etable) = 1

\* C17: a DECODE mapper applied to a real, non-epsilon arc whose ilabel is
\* not a key of the table (ilabel < 1 or ilabel > Size()) returns
\* (kNoLabel, kNoLabel, NoWeight, arc.nextstate), sets the error flag and
\* leaves the table as it is; applied to an arc with ilabel = 0 it returns
\* the arc as it is, whatever the table holds, and leaves the error flag as
\* it is.
C17_DecodeMissAndEpsilon ==
    /\ [](elast.op = "decode" =>
              /\ (/\ elast.in.nextstate # kNoStateId
                  /\ elast.in.ilabel # 0
                  /\ (elast.in.ilabel < 1 \/ elast.in.ilabel > TableSize(etable))) =>
                     /\ elast.out = Arc(kNoLabel, kNoLabel, NoWeight, elast.in.nextstate)
                     /\ derror
              /\ elast.in.ilabel = 0 => elast.out = elast.in)
    /\ [][(elast'.op = "decode") =>
              /\ etable' = etable
              /\ (elast'.in.ilabel = 0) => (derror' = derror)]_vars

C17_Witness ==
    /\ elast.op = "decode"
    /\ TableSize(etable) = 1
    /\ elast.in = Arc(2, 1, One, 0)
    /\ elast.out = Arc(kNoLabel, kNoLabel, NoWeight, 0)
    /\ derror

\* C18 as stated: a DECODE mapper applied to an arc has its error flag set
\* when LABELS is set and the arc's ilabel differs from its olabel, and when
\* WEIGHTS is set and the arc's weight is not One.
C18_ErrorOnAnyMalformedArc ==
    (/\ elast.op = "decode"
     /\ \/ (HasFlag(eflags, kEncodeLabels) /\ elast.in.ilabel # elast.in.olabel)
        \/ (HasFlag(eflags, kEncodeWeights) /\ elast.in.weight # One))
        => derror

\* C18 amended: a DECODE mapper applied to a real arc (nextstate #
\* kNoStateId) with ilabel # 0 sets its error flag when LABELS is set and
\* the arc's ilabel differs from its olabel, and when WEIGHTS is set and the
\* arc's weight is not One; if the ilabel is a key of the table the arc
\* returned is still the one decoded from the table entry.  A super-final
\* arc and an arc with ilabel = 0 are returned as they are and leave the
\* flag as it is.  Once the error flag of a mapper is set no later call on
\* that mapper clears it, and every Properties(inprops) call on it returns a
\* set that has kError.
C18_ErrorOnMalformedRealArc ==
    /\ [](/\ (/\ elast.op = "decode"
              /\ elast.in.nextstate # kNoStateId
              /\ elast.in.ilabel # 0
              /\ \/ (HasFlag(eflags, kEncodeLabels)
                        /\ elast.in.ilabel # elast.in.olabel)
                 \/ (HasFlag(eflags, kEncodeWeights) /\ elast.in.weight # One)) =>
                 /\ derror
                 /\ elast.in.ilabel \in 1..TableSize(etable) =>
                        LET tuple == TableDecode(etable, elast.in.ilabel)
                        IN  elast.out =
                                Arc(tuple.ilabel,
                                    IF HasFlag(eflags, kEncodeLabels)
                                        THEN tuple.olabel ELSE elast.in.olabel,
                                    IF HasFlag(eflags, kEncodeWeights)
                                        THEN tuple.weight ELSE elast.in.weight,
                                    elast.in.nextstate)
          /\ (elast.op = "Properties" /\ derror) => kError \in elast.ret
          /\ (elast.op = "Properties" /\ ~derror) =>
                 (kError \in elast.ret <=> kError \in elast.inprops))
    /\ [][/\ derror => derror'
          /\ (/\ elast'.op = "decode"
              /\ (elast'.in.nextstate = kNoStateId \/ elast'.in.ilabel = 0)) =>
                 (derror' = derror /\ elast'.out = elast'.in)]_vars

C18_Witness ==
    /\ elast.op = "Properties"
    /\ elast.inprops = {kAcceptor, kUnweighted}
    /\ kError \in elast.ret
    /\ derror
    /\ eflags = kEncodeLabels
    /\ TableSize(etable) = 2

(***************************************************************************)
(* Writing and reading an EncodeTable.  The table is tflags (flags_, with   *)
(* the two internal symbol bits), etable and esyms (isymbols_, osymbols_);  *)
(* estrm is the stream as the sequence of the values written to it, rtable  *)
(* the result of the last Read of that stream.  A table is built, written,  *)
(* and the stream is read back, as written or with its first value replaced.*)
(***************************************************************************)
SymbolTables == {NoSymbols, "symsA", "symsB"}

\* flags | bit and flags & ~bit
SetBit(flags, bit) == IF HasFlag(flags, bit) THEN flags ELSE flags + bit

ClearBit(flags, bit) == IF HasFlag(flags, bit) THEN flags - bit ELSE flags

\* EncodeTable::Flags()
TableFlags(flags) == flags % (kEncodeFlags + 1)

\* EncodeTable::SetInputSymbols(syms) and SetOutputSymbols(syms): the
\* symbol table held and flags_ after the call
TableSetSymbolsDrop(flags, bit, syms) ==
    [syms |-> NoSymbols, flags |-> ClearBit(flags, bit)]

TableSetSymbols(flags, bit, syms) ==
    IF syms # NoSymbols
        THEN [syms |-> syms, flags |-> SetBit(flags, bit)]
        ELSE [syms |-> NoSymbols, flags |-> ClearBit(flags, bit)]

\* SymbolTable::Write and SymbolTable::Read
SymbolTableWrite(syms) == <<[symbols |-> syms]>>

SymbolTableRead(strm, pos) == IF pos <= Len(strm) THEN strm[pos].symbols ELSE NoSymbols

RECURSIVE WriteTuples(_)
WriteTuples(tuples) ==
    IF tuples = <<>>
        THEN <<>>
        ELSE <<tuples[1].ilabel, tuples[1].olabel, tuples[1].weight>>
                 \o WriteTuples(Tail(tuples))

\* EncodeTable::Write(strm, source): the values put on the stream
TableWriteMaskedFlags(flags, tuples, syms) ==
    <<kEncodeMagicNumber, TableFlags(flags), Len(tuples)>> \o WriteTuples(tuples)
        \o (IF HasFlag(TableFlags(flags), kEncodeHasISymbols)
                THEN SymbolTableWrite(syms.i) ELSE <<>>)
        \o (IF HasFlag(TableFlags(flags), kEncodeHasOSymbols)
                THEN SymbolTableWrite(syms.o) ELSE <<>>)

TableWrite(flags, tuples, syms) ==
    <<kEncodeMagicNumber, flags, Len(tuples)>> \o WriteTuples(tuples)
        \o (IF HasFlag(flags, kEncodeHasISymbols) THEN SymbolTableWrite(syms.i) ELSE <<>>)
        \o (IF HasFlag(flags, kEncodeHasOSymbols) THEN SymbolTableWrite(syms.o) ELSE <<>>)

\* the nullptr EncodeTable::Read returns
NullTable == [null |-> TRUE]

\* EncodeTable::Read(strm, source): the table read
TableRead(strm) ==
    LET magic_number == IF Len(strm) >= 1 THEN strm[1] ELSE 0
    IN  IF magic_number # kEncodeMagicNumber
            THEN NullTable
            ELSE LET flags == strm[2]
                     size == strm[3]
                     ipos == 3 + 3 * size + 1
                     opos == IF HasFlag(flags, kEncodeHasISymbols) THEN ipos + 1 ELSE ipos
                 IN  [null |-> FALSE,
                      flags |-> flags,
                      tuples |-> [i \in 1..size |->
                                      Tuple(strm[3 * i + 1], strm[3 * i + 2],
                                            strm[3 * i + 3])],
                      isymbols |-> IF HasFlag(flags, kEncodeHasISymbols)
                                       THEN SymbolTableRead(strm, ipos)
                                       ELSE NoSymbols,
                      osymbols |-> IF HasFlag(flags, kEncodeHasOSymbols)
                                       THEN SymbolTableRead(strm, opos)
                                       ELSE NoSymbols]

\* EncodeTable table(flags)
InitTableIO ==
    /\ tflags \in EncodeFlags
    /\ eflags = tflags
    /\ etable = <<>>
    /\ derror = FALSE
    /\ elast = [op |-> "none", in |-> NoArc, mid |-> NoArc, out |-> NoArc]
    /\ dtab = NullRef
    /\ issued = <<>>
    /\ IdleTable
    /\ IdleVisit
    /\ IdleComplement
    /\ IdleTools
    /\ IdleObjects

\* table.Encode(arc), before the table is written
IOEncode ==
    /\ estrm = <<>>
    /\ \E a \in TableArcs :
           LET r == TableEncode(tflags, etable, a)
           IN  /\ Len(r.tuples) <= MaxTuples
               /\ etable' = r.tuples
    /\ UNCHANGED <<eflags, derror, elast, dtab, issued, tflags>>
    /\ UNCHANGED <<tableCallVars, symbolVars, streamVars>>
    /\ UNCHANGED otherThanEncode

\* table.SetInputSymbols(syms), before the table is written
IOSetInputSymbols ==
    /\ estrm = <<>>
    /\ \E syms \in SymbolTables :
           LET r == TableSetSymbols(tflags, kEncodeHasISymbols, syms)
           IN  /\ tflags' = r.flags
               /\ esyms' = [esyms EXCEPT !.i = r.syms]
    /\ UNCHANGED <<eflags, etable, derror, elast, dtab, issued, efst>>
    /\ UNCHANGED <<tableCallVars, streamVars>>
    /\ UNCHANGED otherThanEncode

\* table.SetOutputSymbols(syms), before the table is written
IOSetOutputSymbols ==
    /\ estrm = <<>>
    /\ \E syms \in SymbolTables :
           LET r == TableSetSymbols(tflags, kEncodeHasOSymbols, syms)
           IN  /\ tflags' = r.flags
               /\ esyms' = [esyms EXCEPT !.o = r.syms]
    /\ UNCHANGED <<eflags, etable, derror, elast, dtab, issued, efst>>
    /\ UNCHANGED <<tableCallVars, streamVars>>
    /\ UNCHANGED otherThanEncode

\* table.Write(strm, source)
IOWrite ==
    /\ estrm = <<>>
    /\ estrm' = TableWrite(tflags, etable, esyms)
    /\ rtable' = [op |-> "none"]
    /\ UNCHANGED <<eflags, etable, derror, elast, dtab, issued, tflags>>
    /\ UNCHANGED <<tableCallVars, symbolVars>>
    /\ UNCHANGED otherThanEncode

\* the first int32 of the stream replaced by another value
IOForeignHeader ==
    /\ estrm # <<>>
    /\ rtable.op = "none"
    /\ \E v \in {0, kEncodeMagicNumber + 1} : estrm' = [estrm EXCEPT ![1] = v]
    /\ UNCHANGED <<eflags, etable, derror, elast, dtab, issued, tflags, rtable>>
    /\ UNCHANGED <<tableCallVars, symbolVars>>
    /\ UNCHANGED otherThanEncode

\* EncodeTable::Read(strm, source), on the written stream or on an empty one
IORead ==
    /\ rtable' = [op |-> "Read", table |-> TableRead(estrm)]
    /\ UNCHANGED <<eflags, etable, derror, elast, dtab, issued, tflags, estrm>>
    /\ UNCHANGED <<tableCallVars, symbolVars>>
    /\ UNCHANGED otherThanEncode

NextTableIO ==
    \/ IOEncode
    \/ IOSetInputSymbols
    \/ IOSetOutputSymbols
    \/ IOWrite
    \/ IOForeignHeader
    \/ IORead

SpecTableIO == InitTableIO /\ [][NextTableIO]_vars

\* C14: Read on the bytes Write has written returns a table with the same
\* Flags(), the same Size(), the same tuple for Decode(k) for every k in
\* 1..Size(), the same GetLabel result for every arc and the same input and
\* output symbol tables; Read on a stream whose first int32 is not
\* 2129983209 returns null.
C14_WriteReadIdentity ==
    rtable.op = "Read" =>
        IF estrm # <<>> /\ estrm[1] = 2129983209
            THEN /\ rtable.table # NullTable
                 /\ ~rtable.table.null
                 /\ TableFlags(rtable.table.flags) = TableFlags(tflags)
                 /\ TableSize(rtable.table.tuples) = TableSize(etable)
                 /\ \A k \in 1..TableSize(etable) :
                        TableDecode(rtable.table.tuples, k) = TableDecode(etable, k)
                 /\ \A a \in TableArcs :
                        TableGetLabel(rtable.table.flags, rtable.table.tuples, a)
                            = TableGetLabel(tflags, etable, a)
                 /\ rtable.table.isymbols = esyms.i
                 /\ rtable.table.osymbols = esyms.o
            ELSE rtable.table = NullTable

C14_Witness ==
    /\ rtable.op = "Read"
    /\ ~rtable.table.null
    /\ TableSize(rtable.table.tuples) = 2
    /\ rtable.table.isymbols = NoSymbols
    /\ rtable.table.osymbols = "symsB"
    /\ rtable.table.flags = kEncodeWeights + kEncodeHasOSymbols
    /\ TableGetLabel(rtable.table.flags, rtable.table.tuples, Arc(1, 2, Half, 0)) = 2

(***************************************************************************)
(* Encode(fst, mapper) and Decode(fst, mapper) on a mutable fst.  efst is   *)
(* the fst: its arcs, its input and output symbol tables i and o, and the   *)
(* tables i0 and o0 it had when Encode was called; esyms are the symbol     *)
(* tables of the mapper's table.  ArcMap is not part of these sources: it   *)
(* is taken to apply the mapper to every arc and to clear a symbol table    *)
(* for MAP_CLEAR_SYMBOLS; states and final weights are not represented.     *)
(***************************************************************************)
EncodeFstArcs == {Arc(1, 1, One, 0), Arc(2, 1, Half, 0), Arc(1, 2, One, 0)}

FstArcLists == UNION {[1..n -> EncodeFstArcs] : n \in 0..MaxArcs}

\* EncodeMapper::InputSymbolsAction() and OutputSymbolsAction()
SymbolsAction == "MAP_CLEAR_SYMBOLS"

\* ArcMap(fst, mapper): the symbol table the fst has afterwards
MapSymbols(action, syms) == IF action = "MAP_CLEAR_SYMBOLS" THEN NoSymbols ELSE syms

\* ArcMap(fst, mapper): the arcs after the mapper was applied to each in
\* turn, and the table afterwards
RECURSIVE MapArcs(_, _, _, _)
MapArcs(type, flags, tuples, arcs) ==
    IF arcs = <<>>
        THEN [arcs |-> <<>>, tuples |-> tuples]
        ELSE LET r == MapperCall(type, flags, tuples, FALSE, arcs[1])
                 rest == MapArcs(type, flags, r.tuples, Tail(arcs))
             IN  [arcs |-> <<r.arc>> \o rest.arcs, tuples |-> rest.tuples]

\* EncodeMapper mapper(flags, ENCODE) and an fst with any symbol tables
InitEncodeFst ==
    /\ eflags \in EncodeFlags
    /\ tflags = eflags
    /\ etable = <<>>
    /\ derror = FALSE
    /\ elast = [op |-> "none", in |-> NoArc, mid |-> NoArc, out |-> NoArc]
    /\ dtab = NullRef
    /\ issued = <<>>
    /\ tlast = NoTableCall
    /\ tkept = NoTableCall
    /\ esyms = [i |-> NoSymbols, o |-> NoSymbols]
    /\ \E i \in SymbolTables, o \in SymbolTables, arcs \in FstArcLists :
           efst = [stage |-> "fresh", i |-> i, o |-> o, i0 |-> i, o0 |-> o,
                   arcs |-> arcs]
    /\ estrm = <<>>
    /\ rtable = [op |-> "none"]
    /\ IdleVisit
    /\ IdleComplement
    /\ IdleTools
    /\ IdleObjects

\* Encode(fst, mapper)
EncodeFst ==
    /\ efst.stage = "fresh"
    /\ LET si == TableSetSymbols(tflags, kEncodeHasISymbols, efst.i)
           so == TableSetSymbols(si.flags, kEncodeHasOSymbols, efst.o)
           r == MapArcs(ENCODE, eflags, etable, efst.arcs)
       IN  /\ Len(r.tuples) <= MaxTuples
           /\ esyms' = [i |-> si.syms, o |-> so.syms]
           /\ tflags' = so.flags
           /\ etable' = r.tuples
           /\ efst' = [stage |-> "encoded",
                       i |-> MapSymbols(SymbolsAction, efst.i),
                       o |-> MapSymbols(SymbolsAction, efst.o),
                       i0 |-> efst.i, o0 |-> efst.o, arcs |-> r.arcs]
    /\ UNCHANGED <<eflags, derror, elast, dtab, issued>>
    /\ UNCHANGED <<tableCallVars, streamVars>>
    /\ UNCHANGED otherThanEncode

\* Decode(fst, mapper)
DecodeFst ==
    /\ efst.stage = "encoded"
    /\ LET decoder == MapperCopyType(MapperCtor(eflags, ENCODE), DECODE)
           r == MapArcs(decoder.type, decoder.flags, TableOf(decoder.table), efst.arcs)
       IN  efst' = [efst EXCEPT !.stage = "decoded", !.i = esyms.i, !.o = esyms.o,
                                !.arcs = r.arcs]
    /\ UNCHANGED <<eflags, etable, derror, elast, dtab, issued, tflags, esyms>>
    /\ UNCHANGED <<tableCallVars, streamVars>>
    /\ UNCHANGED otherThanEncode

\* the mapper is handed another fst
NextFst ==
    /\ efst.stage = "decoded"
    /\ \E i \in SymbolTables, o \in SymbolTables, arcs \in FstArcLists :
           efst' = [stage |-> "fresh", i |-> i, o |-> o, i0 |-> i, o0 |-> o,
                    arcs |-> arcs]
    /\ UNCHANGED <<eflags, etable, derror, elast, dtab, issued, tflags, esyms>>
    /\ UNCHANGED <<tableCallVars, streamVars>>
    /\ UNCHANGED otherThanEncode

NextEncodeFst ==
    \/ EncodeFst
    \/ DecodeFst
    \/ NextFst

SpecEncodeFst == InitEncodeFst /\ [][NextEncodeFst]_vars

\* C20: Encode(fst, mapper) followed by Decode(fst, mapper) leaves fst with
\* the input and output symbol tables it had before Encode, absent ones
\* included; between the two calls the mapper holds those tables and the
\* encoded fst has no input and no output symbol table.
C20_SymbolsRestored ==
    /\ efst.stage = "encoded" =>
           /\ efst.i = NoSymbols
           /\ efst.o = NoSymbols
           /\ esyms.i = efst.i0
           /\ esyms.o = efst.o0
    /\ efst.stage = "decoded" =>
           /\ efst.i = efst.i0
           /\ efst.o = efst.o0

C20_Witness ==
    /\ efst.stage = "decoded"
    /\ efst.i = "symsA"
    /\ efst.o = NoSymbols
    /\ efst.i0 = "symsA"
    /\ efst.arcs = <<Arc(2, 1, Half, 0), Arc(1, 2, One, 0)>>
    /\ TableSize(etable) = 2
    /\ tflags = kEncodeLabels + kEncodeWeights + kEncodeHasISymbols

(***************************************************************************)
(* The operation register of the scripting layer (script-impl.h).  sreg is  *)
(* the register as the set of its entries; a body is a function pointer,    *)
(* named here, that stores its own name in the ArgPack it is called on.     *)
(* GenericRegister is not part of these sources: SetEntry is taken to add   *)
(* the entry and GetEntry to return the entry of the key, or a null pointer *)
(* when there is none and no shared object provides one.  A process has at  *)
(* most one registerer per operation and arc type, as the registerer object *)
(* REGISTER_FST_OPERATION defines is named after both.                      *)
(***************************************************************************)
OperationNames == {"Foo", "Bar"}

ArcTypeNames == {"standard", "log"}

Bodies == {"Foo<StdArc>", "Foo<LogArc>", "Bar<StdArc>"}

NoOperation == "nullptr"

\* GenericRegister::SetEntry(key, entry)
SetEntry(reg, key, entry) == reg \cup {[key |-> key, entry |-> entry]}

\* GenericRegister::GetEntry(key)
GetEntry(reg, key) ==
    IF \E e \in reg : e.key = key
        THEN (CHOOSE e \in reg : e.key = key).entry
        ELSE NoOperation

\* GenericOperationRegister::RegisterOperation(operation_name, arc_type, op)
RegisterOperation(reg, operation_name, arc_type, op) ==
    SetEntry(reg, <<operation_name, arc_type>>, op)

\* GenericOperationRegister::GetOperation(operation_name, arc_type)
GetOperation(reg, operation_name, arc_type) ==
    GetEntry(reg, <<operation_name, arc_type>>)

\* op(args): the body stores its result in the ArgPack
CallBody(op, args) == [args EXCEPT !.ret = op]

\* Apply<OpReg>(op_name, arc_type, args): the bodies invoked, each with the
\* ArgPack it was given, and the ArgPack afterwards
ApplyAnyArcType(reg, op_name, arc_type, args) ==
    LET named == {e \in reg : e.key[1] = op_name}
    IN  IF named = {}
            THEN [invoked |-> <<>>, args |-> args]
            ELSE LET op == (CHOOSE e \in named : TRUE).entry
                 IN  [invoked |-> <<[body |-> op, args |-> args.id]>>,
                      args |-> CallBody(op, args)]

Apply(reg, op_name, arc_type, args) ==
    LET op == GetOperation(reg, op_name, arc_type)
    IN  IF op = NoOperation
            THEN [invoked |-> <<>>, args |-> args]
            ELSE [invoked |-> <<[body |-> op, args |-> args.id]>>,
                  args |-> CallBody(op, args)]

\* the register before any registerer has run
InitScript ==
    /\ sreg = {}
    /\ sargs = [id |-> 0, ret |-> "none"]
    /\ slast = [op |-> "none"]
    /\ cli = [pc |-> "none"]
    /\ IdleVisit
    /\ IdleComplement
    /\ IdleEncode
    /\ IdleObjects

\* a registerer made by REGISTER_FST_OPERATION runs
Register ==
    /\ \E name \in OperationNames, arc \in ArcTypeNames, op \in Bodies :
           /\ \A e \in sreg : e.key # <<name, arc>>
           /\ sreg' = RegisterOperation(sreg, name, arc, op)
    /\ UNCHANGED <<sargs, slast, cli>>
    /\ UNCHANGED otherThanTools

\* Apply<OpReg>(op_name, arc_type, &args) on a fresh ArgPack
CallApply ==
    /\ \E name \in OperationNames \cup {"Baz"}, arc \in ArcTypeNames, id \in {1, 2} :
           LET args == [id |-> id, ret |-> "none"]
               r == Apply(sreg, name, arc, args)
           IN  /\ sargs' = r.args
               /\ slast' = [op |-> "Apply", name |-> name, arc |-> arc, args |-> args,
                            reg |-> sreg, invoked |-> r.invoked]
    /\ UNCHANGED <<sreg, cli>>
    /\ UNCHANGED otherThanTools

NextScript ==
    \/ Register
    \/ CallApply

SpecScript == InitScript /\ [][NextScript]_vars

Tools == {"fstcompose", "fstconcat", "fstinvert"}

Positionals == {"-", "", "a.fst", "b.fst"}

ComposeFilters == {"alt_sequence", "auto", "match", "null", "sequence", "trivial"}

\* script::GetComposeFilter(str, &compose_filter)
GetComposeFilter(str) == str \in ComposeFilters

\* strcmp(arg, "-") != 0 ? arg : ""
InputName(arg) == IF arg # "-" THEN arg ELSE ""

\* in1_name.empty() && in2_name.empty()
BothStdinNever(in1_name, in2_name) == FALSE

BothStdin(in1_name, in2_name) == in1_name = "" /\ in2_name = ""

\* the argc test that ends in ShowUsage()
UsageError(tool, argc) ==
    IF tool = "fstinvert" THEN argc > 3 ELSE argc < 3 \/ argc > 4

\* main(argc, argv) is entered
InitCli ==
    /\ \E tool \in Tools, n \in 0..MaxPositional, filter \in {"auto", "bogus"} :
           \E args \in [1..n -> Positionals] :
               cli = [pc |-> "start", tool |-> tool, args |-> args, filter |-> filter,
                      in1 |-> "", in2 |-> "", out |-> "", t1 |-> "none", t2 |-> "none",
                      events |-> <<>>, ran |-> FALSE, wrote |-> "none", exit |-> -1]
    /\ sreg = {}
    /\ sargs = [id |-> 0, ret |-> "none"]
    /\ slast = [op |-> "none"]
    /\ IdleVisit
    /\ IdleComplement
    /\ IdleEncode
    /\ IdleObjects

\* main: the usage test, the names and the test for two standard inputs
MainArgs ==
    /\ cli.pc = "start"
    /\ LET argc == Len(cli.args) + 1
           two == cli.tool # "fstinvert"
           in1 == IF argc > 1 THEN InputName(cli.args[1]) ELSE ""
           in2 == IF two /\ argc > 2 THEN InputName(cli.args[2]) ELSE ""
           outpos == IF two THEN 3 ELSE 2
           out == IF argc > outpos THEN cli.args[outpos] ELSE ""
       IN  IF UsageError(cli.tool, argc)
               THEN cli' = [cli EXCEPT !.pc = "done", !.exit = 1,
                                       !.events = <<[ev |-> "usage"]>>]
               ELSE IF two /\ BothStdin(in1, in2)
                        THEN cli' = [cli EXCEPT !.pc = "done", !.exit = 1,
                                                !.in1 = in1, !.in2 = in2, !.out = out,
                                                !.events = <<[ev |-> "error"]>>]
                        ELSE cli' = [cli EXCEPT !.pc = "read1", !.in1 = in1,
                                                !.in2 = in2, !.out = out]
    /\ UNCHANGED <<sreg, sargs, slast>>
    /\ UNCHANGED otherThanTools

\* main: the first (or only) input is read
MainRead1 ==
    /\ cli.pc = "read1"
    /\ \E r \in {"nullptr"} \cup ArcTypeNames :
           LET events == Append(cli.events, [ev |-> "read", name |-> cli.in1])
           IN  IF r = "nullptr"
                   THEN cli' = [cli EXCEPT !.pc = "done", !.exit = 1, !.events = events]
                   ELSE cli' = [cli EXCEPT !.pc = IF cli.tool = "fstinvert"
                                                      THEN "operate" ELSE "read2",
                                           !.t1 = r, !.events = events]
    /\ UNCHANGED <<sreg, sargs, slast>>
    /\ UNCHANGED otherThanTools

\* main: the second input is read
MainRead2 ==
    /\ cli.pc = "read2"
    /\ \E r \in {"nullptr"} \cup ArcTypeNames :
           LET events == Append(cli.events, [ev |-> "read", name |-> cli.in2])
           IN  IF r = "nullptr"
                   THEN cli' = [cli EXCEPT !.pc = "done", !.exit = 1, !.events = events]
                   ELSE cli' = [cli EXCEPT !.pc = "operate", !.t2 = r, !.events = events]
    /\ UNCHANGED <<sreg, sargs, slast>>
    /\ UNCHANGED otherThanTools

\* main: the tests made before the operation, and the operation
MainOperate ==
    /\ cli.pc = "operate"
    /\ IF cli.tool = "fstcompose"
           THEN IF cli.t1 # cli.t2 \/ ~GetComposeFilter(cli.filter)
                    THEN cli' = [cli EXCEPT !.pc = "done", !.exit = 1,
                                            !.events = Append(@, [ev |-> "error"])]
                    ELSE cli' = [cli EXCEPT !.pc = "write", !.ran = TRUE]
           ELSE IF cli.tool = "fstconcat"
                    THEN cli' = [cli EXCEPT !.pc = "write", !.ran = (cli.t1 = cli.t2)]
                    ELSE cli' = [cli EXCEPT !.pc = "write", !.ran = TRUE]
    /\ UNCHANGED <<sreg, sargs, slast>>
    /\ UNCHANGED otherThanTools

\* main: the output is written and main returns
MainWrite ==
    /\ cli.pc = "write"
    /\ \E ok \in BOOLEAN :
           cli' = [cli EXCEPT !.pc = "done", !.exit = 0,
                              !.wrote = IF ok THEN "ok" ELSE "failed",
                              !.events = Append(@, [ev |-> "write", name |-> cli.out])]
    /\ UNCHANGED <<sreg, sargs, slast>>
    /\ UNCHANGED otherThanTools

NextCli ==
    \/ MainArgs
    \/ MainRead1
    \/ MainRead2
    \/ MainOperate
    \/ MainWrite

SpecCli == InitCli /\ [][NextCli]_vars

\* C22: each tool exits with code 1 on a usage error, an unreadable input,
\* inputs of different arc types, an unknown enumeration value and a failed
\* write of the output, and with code 0 only when the operation ran and the
\* output was written.
C22_ExitCodes ==
    cli.pc = "done" =>
        /\ cli.exit \in {0, 1}
        /\ cli.exit = 0 <=> (cli.ran /\ cli.wrote = "ok")

\* the number of positional arguments that are "-"
Dashes(args) == Cardinality({i \in 1..Len(args) : args[i] = "-"})

\* C23 as stated: a command line with two or more "-" among its positional
\* arguments, input and output paths together, ends in exit code 1 before
\* any input is read.
C23_AtMostOneDash ==
    (cli.pc # "start" /\ Dashes(cli.args) >= 2) =>
        /\ cli.pc = "done"
        /\ cli.exit = 1
        /\ \A i \in 1..Len(cli.events) : cli.events[i].ev # "read"

\* C23 amended: fstcompose and fstconcat, given two or three positional
\* arguments, exit with code 1 before reading any input exactly when both
\* input paths are "-" or empty; otherwise they go on to read the first
\* input.  The output path is used as given, a "-" there is not counted and
\* not translated; fstinvert, given at most two positional arguments, makes
\* no such test.
C23_BothInputsStdin ==
    (cli.pc # "start" /\ ~UsageError(cli.tool, Len(cli.args) + 1)) =>
        LET two == cli.tool # "fstinvert"
            outpos == IF two THEN 3 ELSE 2
        IN  IF two /\ cli.args[1] \in {"-", ""} /\ cli.args[2] \in {"-", ""}
                THEN /\ cli.pc = "done"
                     /\ cli.exit = 1
                     /\ cli.events = <<[ev |-> "error"]>>
                ELSE /\ cli.pc # "read1" =>
                         /\ cli.events # <<>>
                         /\ cli.events[1] =
                                [ev |-> "read",
                                 name |-> IF Len(cli.args) = 0 \/ cli.args[1] = "-"
                                              THEN "" ELSE cli.args[1]]
                     /\ cli.wrote # "none" =>
                            cli.events[Len(cli.events)] =
                                [ev |-> "write",
                                 name |-> IF Len(cli.args) >= outpos
                                              THEN cli.args[outpos] ELSE ""]

C23_Witness ==
    /\ cli.pc = "done"
    /\ cli.tool = "fstcompose"
    /\ cli.args = <<"-", "b.fst", "-">>
    /\ cli.exit = 0
    /\ cli.events = <<[ev |-> "read", name |-> ""], [ev |-> "read", name |-> "b.fst"],
                      [ev |-> "write", name |-> "-"]>>

(***************************************************************************)
(* Visit: which states are initialized, which callbacks follow a refusal,  *)
(* the colours and the arc cursors (visit.h, lines 81-176).                *)
(***************************************************************************)
\* Visit with the any-arc filter and a visitor of the caller's own, whose
\* bool callbacks may return true or false at every call
InitVisitAnyArc ==
    InitVisitCall(Fsts({0}, {Zero}, BOOLEAN),
                  Options({"generic"}, {"any"}, {0}, {TRUE}))

SpecAnyArc == InitVisitAnyArc /\ [][NextVisit]_vars

\* the states of f that S reaches through its arcs, S included
RECURSIVE ReachFrom(_, _)
ReachFrom(f, S) ==
    LET T == S \cup UNION {{AIterValue(f, s, i).nextstate : i \in 0..(NumArcs(f, s) - 1)} :
                            s \in S}
        U == {t \in T : t \in 0..(NumStates(f) - 1)}
    IN  IF U = S THEN S ELSE ReachFrom(f, U)

\* the states of f reachable from its start state
Accessible(f) == IF NoStart(f) THEN {} ELSE ReachFrom(f, {f.start})

\* no bool callback of the visit has returned false
NeverHalted == halt.at = 0 /\ visit

\* the states InitState is to be called for: all when access_only is false,
\* those the start reaches when it is true
ToInitialize(f, o) ==
    IF o.access_only THEN Accessible(f) ELSE 0..(NumStates(f) - 1)

\* C24 as stated: a finished Visit with the any-arc filter in which no
\* callback returned false has called InitState exactly once for every state
\* of the FST when access_only is false, and exactly once for the states
\* reachable from the start and for no other when access_only is true.
C24_InitStateForEveryState ==
    (pc = "done" /\ NeverHalted /\ opts.filter = "any") =>
        \A s \in 0..(NumStates(fst) - 1) :
            Cardinality(Calls("InitState", s)) =
                IF s \in ToInitialize(fst, opts) THEN 1 ELSE 0

\* C24 amended: the same for an FST that has a start state; for an FST
\* without a start state InitState is called for no state, whatever
\* access_only is.
C24_InitStateOncePerState ==
    (pc = "done" /\ NeverHalted /\ opts.filter = "any") =>
        /\ \A s \in 0..(NumStates(fst) - 1) :
              Cardinality(Calls("InitState", s)) =
                  IF ~NoStart(fst) /\ s \in ToInitialize(fst, opts) THEN 1 ELSE 0
        /\ \A i \in CallsOf("InitState") : log[i].s \in 0..(NumStates(fst) - 1)

\* C24 witness: a visit of all states has finished on a non-expanded FST
\* whose start is its state 0, with an arc to itself, and whose second state
\* is found through the state iterator only
C24_Witness ==
    /\ pc = "done" /\ NeverHalted /\ opts.filter = "any" /\ ~opts.access_only
    /\ ~fst.expanded /\ fst.start = 0 /\ NumStates(fst) = 2
    /\ Accessible(fst) = {0} /\ NumArcs(fst, 0) >= 1
    /\ Cardinality(Calls("InitState", 0)) = 1
    /\ Cardinality(Calls("InitState", 1)) = 1

\* the callbacks logged after the first refusal
AfterHalt == (halt.at + 1)..Len(log)

\* the states enqueued before the callback at position i of the log returned
EnqueuedBefore(i) == {log[j].s : j \in {k \in 1..(i - 1) : log[k].cb = "InitState"}}

\* C25 as stated: once a bool callback has returned false, no InitState,
\* WhiteArc, GreyArc or BlackArc call follows and no state is enqueued that
\* was not enqueued before the refusal; FinishState calls and the final
\* FinishVisit are the only callbacks that follow.
C25_NothingAfterRefusal ==
    halt.at > 0 =>
        /\ \A i \in AfterHalt : log[i].cb \in {"FinishState", "FinishVisit"}
        /\ \A i \in 1..Len(queue) : queue[i] \in EnqueuedBefore(halt.at)

\* C25 amended: once a bool callback has returned false, no InitState,
\* WhiteArc, GreyArc or BlackArc call follows, and the one state enqueued
\* after the refusal is the state whose own InitState call refused; from
\* then on the queue only loses states, and FinishState calls and the final
\* FinishVisit are the only callbacks that follow.
C25_OnlyTheRefusedStateEnqueued ==
    /\ [](halt.at > 0 =>
            /\ log[halt.at].ret = FALSE
            /\ \A i \in AfterHalt : log[i].cb \in {"FinishState", "FinishVisit"}
            /\ \A i \in AfterHalt : log[i].cb = "FinishVisit" => i = Len(log)
            /\ \A i \in 1..Len(queue) :
                  \/ queue[i] \in EnqueuedBefore(halt.at)
                  \/ log[halt.at].cb = "InitState" /\ queue[i] = log[halt.at].s)
    /\ [][(halt.at > 0) =>
            /\ (queue' = queue \/ queue' = QDequeue(queue, opts.queue))
            /\ (state_status' # state_status =>
                   (GreySet(state_status') \subseteq GreySet(state_status)))]_vars

\* C25 witness: a visit has ended in which an InitState call refused while
\* another state was Grey, and both were finished after the refusal
C25_Witness ==
    /\ pc = "done" /\ halt.at > 0
    /\ log[halt.at].cb = "InitState"
    /\ Cardinality(halt.grey) >= 2
    /\ Len(log) = halt.at + 3

\* the colour of state s: its status without the kArcIterDone mark; a state
\* the status array does not hold yet is White
ColourOf(st, s) == IF s >= Len(st) THEN kWhiteState ELSE st[s + 1] % kArcIterDone

\* the colour the callbacks made so far give state s
ColourByLog(s) ==
    IF Calls("FinishState", s) # {} THEN kBlackState
    ELSE IF Calls("InitState", s) # {} THEN kGreyState
    ELSE kWhiteState

\* C26: the colour of a state only moves White -> Grey -> Black; a state is
\* White until its one InitState call, Grey from then until its one
\* FinishState call, which comes after the InitState call, and Black from
\* then on; when FinishVisit is called every state that received InitState
\* has received FinishState and the queue is empty.
C26_ColoursOnlyAdvance ==
    /\ [](\A s \in 0..(NumStates(fst) - 1) :
            /\ Cardinality(Calls("InitState", s)) <= 1
            /\ Cardinality(Calls("FinishState", s)) <= 1
            /\ \A j \in Calls("FinishState", s) :
                  \E i \in Calls("InitState", s) : i < j
            /\ ColourOf(state_status, s) = ColourByLog(s)
            /\ InQueue(s) => ColourOf(state_status, s) = kGreyState)
    /\ []((CallsOf("FinishVisit") # {}) =>
            /\ pc = "done"
            /\ queue = <<>>
            /\ \A i \in CallsOf("InitState") : Calls("FinishState", log[i].s) # {})
    /\ [][\A s \in 0..(NumStates(fst) - 1) :
            LET c == ColourOf(state_status, s)
                d == ColourOf(state_status', s)
            IN  \/ c = d
                \/ c = kWhiteState /\ d = kGreyState
                \/ c = kGreyState /\ d = kBlackState]_vars

\* C26 witness: a visit has ended, halted or not, in which two states were
\* initialized, one of them as the destination of a white arc, and an arc
\* to a Black state was seen
C26_Witness ==
    /\ pc = "done"
    /\ Cardinality(CallsOf("InitState")) = 2
    /\ CallsOf("WhiteArc") # {} /\ CallsOf("BlackArc") # {}
    /\ \A s \in 0..(NumStates(fst) - 1) : ColourOf(state_status, s) = kBlackState

ArcCallbacks == {"WhiteArc", "GreyArc", "BlackArc"}

\* the arc callbacks made so far for the arcs leaving s, in the order made
ArcEventsOf(s) ==
    LET OfS(e) == e.cb \in ArcCallbacks /\ e.s = s
    IN  SelectSeq(log, OfS)

\* the arcs leaving s that the ArcFilter accepts, in arc-cursor order
AcceptedArcs(f, o, s) ==
    LET Ok(a) == FilterAccepts(o.filter, a)
    IN  SelectSeq(f.arcs[s + 1], Ok)

\* the arc callback that the colour of state d, as the callbacks before
\* position i of the log have made it, asks for
CallbackByColour(i, d) ==
    IF \A j \in Calls("InitState", d) : j > i THEN "WhiteArc"
    ELSE IF \E j \in Calls("FinishState", d) : j < i THEN "BlackArc"
    ELSE "GreyArc"

\* C27: in a Visit that has not been halted, the arc callbacks made for a
\* state are, in order, one for each arc of the state that the ArcFilter
\* accepts, up to the arc cursor of the state and all of them once the
\* state is finished; none is made for a state that is not initialized;
\* each is WhiteArc, GreyArc or BlackArc by the colour of the arc's
\* destination at the moment of the call.
C27_OneCallbackPerAcceptedArc ==
    NeverHalted =>
        /\ \A s \in 0..(NumStates(fst) - 1) :
              LET ev == ArcEventsOf(s)
                  acc == AcceptedArcs(fst, opts, s)
              IN  /\ Len(ev) <= Len(acc)
                  /\ \A k \in 1..Len(ev) : ev[k].arc = acc[k]
                  /\ Calls("InitState", s) = {} => ev = <<>>
                  /\ ColourOf(state_status, s) = kBlackState => Len(ev) = Len(acc)
        /\ \A i \in 1..Len(log) :
              log[i].cb \in ArcCallbacks =>
                  log[i].cb = CallbackByColour(i, log[i].arc.nextstate)

\* C27 witness: GreyArc has just been called, in a visit not halted, for an
\* arc to another state, which is Grey and marked kArcIterDone
C27_Witness ==
    /\ NeverHalted /\ log # <<>>
    /\ LET e == log[Len(log)]
       IN  /\ e.cb = "GreyArc"
           /\ e.arc.nextstate # e.s
           /\ state_status[e.arc.nextstate + 1] = kGreyState + kArcIterDone

\* the states that have a live arc cursor
LiveCursors(ai) == {s \in 0..(Len(ai) - 1) : ai[s + 1] # NullIter}

\* C28: a live arc cursor exists only for states that are Grey, in the
\* queue and not marked kArcIterDone, so there are no more live cursors than
\* Grey states; a state marked kArcIterDone gets no new cursor; no cursor is
\* live once FinishVisit has been called, in a halted visit as in one that
\* ran to completion.
C28_CursorsOnlyForGreyQueued ==
    /\ [](/\ Len(arc_iterator) = Len(state_status)
          /\ \A s \in LiveCursors(arc_iterator) :
                /\ state_status[s + 1] = kGreyState
                /\ InQueue(s)
                /\ arc_iterator[s + 1] \in 0..(NumArcs(fst, s) - 1)
          /\ Cardinality(LiveCursors(arc_iterator)) <= Cardinality(GreySet(state_status))
          /\ (pc = "done" \/ CallsOf("FinishVisit") # {}) => LiveCursors(arc_iterator) = {})
    /\ [][\A s \in 0..(Len(state_status) - 1) :
            HasArcIterDone(state_status[s + 1]) => (arc_iterator'[s + 1] = NullIter)]_vars

\* C28 witness: a visit has ended that was halted by the callback for the
\* first of the two arcs of a state, whose cursor was live at that moment
C28_Witness ==
    /\ pc = "done" /\ halt.at > 0
    /\ log[halt.at].cb \in {"GreyArc", "BlackArc"}
    /\ NumArcs(fst, log[halt.at].s) = 2
    /\ Len(ArcEventsOf(log[halt.at].s)) = 1
    /\ LiveCursors(arc_iterator) = {}

\* the root of the tree under way when the callback at position i of the
\* log was made: the state of the last InitState(r, r) call before it
TreeRootAt(i) ==
    LET roots == {j \in 1..(i - 1) : log[j].cb = "InitState" /\ log[j].s = log[j].root}
    IN  log[CHOOSE j \in roots : \A k \in roots : k <= j].s

\* C29: after WhiteArc(s, a) has returned false, a.nextstate has had no
\* InitState call, is White, is not in the queue and is not finished; after
\* WhiteArc(s, a) has returned true, the next callback is
\* InitState(a.nextstate, root) with root the root of the current tree, and
\* a.nextstate is no longer White and is in the queue until it is finished,
\* also when that InitState call returned false.
C29_WhiteArcDecidesDiscovery ==
    \A i \in CallsOf("WhiteArc") :
        LET d == log[i].arc.nextstate
        IN  IF ~log[i].ret
            THEN /\ Calls("InitState", d) = {}
                 /\ Calls("FinishState", d) = {}
                 /\ ColourOf(state_status, d) = kWhiteState
                 /\ ~InQueue(d)
            ELSE /\ i < Len(log)
                 /\ log[i + 1].cb = "InitState"
                 /\ log[i + 1].s = d
                 /\ log[i + 1].root = TreeRootAt(i)
                 /\ ColourOf(state_status, d) # kWhiteState
                 /\ InQueue(d) <=> Calls("FinishState", d) = {}
                 /\ pc = "done" => Calls("FinishState", d) # {}

\* C29 witness: a visit has ended in which WhiteArc returned true for an
\* arc in the tree of root 1, the InitState call of the destination, with
\* that root, returned false, and the destination was finished
C29_Witness ==
    /\ pc = "done" /\ halt.at > 2
    /\ log[halt.at].cb = "InitState" /\ ~log[halt.at].ret
    /\ log[halt.at - 1].cb = "WhiteArc" /\ log[halt.at - 1].ret
    /\ log[halt.at].root = 1 /\ log[halt.at].s = 0
    /\ Calls("FinishState", log[halt.at].s) # {}

(***************************************************************************)
(* StateIterator<ComplementFst<A>> (complement.h, lines 170-204): [s,      *)
(* inner], s the member s_ and inner the position of siter_ over the       *)
(* source, whose state i is at position i.                                 *)
(***************************************************************************)
SiCtor == [s |-> 0, inner |-> 0]

SiDone(f, c) == c.s > 0 /\ c.inner >= NumStates(f)

SiValue(c) == c.s

\* a plausible slip: siter_ is moved on from state 0 as well
SiNextAlways(c) == [s |-> c.s + 1, inner |-> c.inner + 1]

SiNext(c) == [s |-> c.s + 1, inner |-> IF c.s # 0 THEN c.inner + 1 ELSE c.inner]

SiReset(c) == [s |-> 0, inner |-> 0]

\* the sources the state cursor is run over: with and without kError
InitStateCursor ==
    /\ csrc \in {Source(f, d) : f \in Fsts({1}, {Zero}, {TRUE}), d \in {"none", "error"}}
    /\ cpc = "new"
    /\ cprops = {}
    /\ cret = NoCall
    /\ caiter = NoCursor
    /\ cseen = <<>>
    /\ csiter = NoStateCursor
    /\ csseen = <<>>
    /\ IdleVisit
    /\ IdleEncode
    /\ IdleTools
    /\ IdleObjects

\* StateIterator<ComplementFst<A>> siter(fst)
NewStateIterator ==
    /\ cpc = "built"
    /\ csiter' = SiCtor
    /\ csseen' = <<>>
    /\ UNCHANGED <<csrc, cpc, cprops, cret, caiter, cseen>>
    /\ UNCHANGED otherThanComplement

\* one turn of the loop for (; !siter.Done(); siter.Next()) reading siter.Value()
StateReadNext ==
    /\ csiter.s # kNoStateId
    /\ ~SiDone(csrc, csiter)
    /\ csseen' = Append(csseen, SiValue(csiter))
    /\ csiter' = SiNext(csiter)
    /\ UNCHANGED <<csrc, cpc, cprops, cret, caiter, cseen>>
    /\ UNCHANGED otherThanComplement

\* siter.Reset()
StateReset ==
    /\ csiter.s # kNoStateId
    /\ csiter' = SiReset(csiter)
    /\ csseen' = <<>>
    /\ UNCHANGED <<csrc, cpc, cprops, cret, caiter, cseen>>
    /\ UNCHANGED otherThanComplement

NextStateCursor ==
    \/ Construct
    \/ NewStateIterator
    \/ StateReadNext
    \/ StateReset
    \/ NewArcIterator
    \/ ReadNext

SpecStateCursor == InitStateCursor /\ [][NextStateCursor]_vars

\* C30: over a source with n states, a loop over the state cursor of the
\* complement reads the states 0, 1, ..., n in this order, each once, from
\* its construction and from every Reset on; the cursor is done exactly
\* when all n + 1 have been read; every arc an arc cursor of the complement
\* yields has a nextstate among 0, ..., n.
C30_StateCursor ==
    /\ Len(csseen) <= NumStates(csrc) + 1
    /\ csseen = [i \in 1..Len(csseen) |-> i - 1]
    /\ csiter.s # kNoStateId =>
          /\ SiValue(csiter) = Len(csseen)
          /\ SiDone(csrc, csiter) <=> Len(csseen) = NumStates(csrc) + 1
    /\ \A i \in 1..Len(cseen) : cseen[i].nextstate \in 0..NumStates(csrc)

\* C30 witness: the state cursor over a source with two states is done,
\* and an arc cursor of the complement's last state has yielded an arc to
\* that state
C30_Witness ==
    /\ NumStates(csrc) = 2
    /\ csiter.s # kNoStateId /\ SiDone(csrc, csiter)
    /\ csseen = <<0, 1, 2>>
    /\ caiter.s = 2 /\ Len(cseen) = 2 /\ cseen[2].nextstate = 2

(***************************************************************************)
(* ArcIterator<ComplementFst<A>>: Position and Seek (complement.h, lines   *)
(* 246-262).  Seek(a) of the source's arc cursor puts it at position a.    *)
(***************************************************************************)
AiPosition(c) == c.pos

\* a plausible slip: the source's cursor is sent to a, not to a - 1
AiSeekSame(c, a) ==
    [c EXCEPT !.inner = IF c.s # 0 THEN a ELSE @, !.pos = a]

AiSeek(c, a) ==
    [c EXCEPT !.inner = IF c.s # 0 THEN (IF a = 0 THEN 0 ELSE a - 1) ELSE @, !.pos = a]

\* aiter.Seek(i) followed by aiter.Position()
SeekIterator ==
    /\ caiter.s # kNoStateId
    /\ \E i \in 0..CNumArcs(csrc, caiter.s) :
          /\ caiter' = AiSeek(caiter, i)
          /\ cret' = [op |-> "Seek", arg |-> i, val |-> AiPosition(caiter')]
    /\ cseen' = <<>>
    /\ UNCHANGED <<csrc, cpc, cprops, csiter, csseen>>
    /\ UNCHANGED otherThanComplement

NextSeek ==
    \/ Construct
    \/ NewArcIterator
    \/ ReadNext
    \/ ResetIterator
    \/ SeekIterator

SpecSeek == InitStateCursor /\ [][NextSeek]_vars

\* the cursor of state s after Reset() and i calls of Next()
RECURSIVE NextTimes(_, _)
NextTimes(c, i) == IF i = 0 THEN c ELSE NextTimes(AiNext(c), i - 1)

ResetThenNext(s, i) == NextTimes(AiReset(AiCtor(s)), i)

\* C31: after any sequence of Next, Seek and Reset calls, the arc cursor of
\* a complement state is the cursor that Reset() and Position() calls of
\* Next() give, with the same Done() and, where an arc is under the cursor,
\* the same Value(); Position() right after Seek(i) was i.
C31_SeekIsResetThenNext ==
    caiter.s # kNoStateId =>
        LET ref == ResetThenNext(caiter.s, AiPosition(caiter))
        IN  /\ caiter = ref
            /\ AiDone(csrc, caiter) <=> AiDone(csrc, ref)
            /\ ~AiDone(csrc, caiter) => AiValue(csrc, caiter) = AiValue(csrc, ref)
            /\ AiPosition(caiter) \in 0..CNumArcs(csrc, caiter.s)
            /\ AiDone(csrc, caiter) <=> AiPosition(caiter) = CNumArcs(csrc, caiter.s)
            /\ cret.op = "Seek" => cret.val = cret.arg

\* C31 witness: the cursor of a state with two source arcs was sent to
\* position 2 and has read the last arc from there
C31_Witness ==
    /\ caiter.s = 1 /\ CNumArcs(csrc, 1) = 3
    /\ cret.op = "Seek" /\ cret.arg = 2
    /\ Len(cseen) = 1
    /\ cseen[1] = [AIterValue(csrc, 0, 1) EXCEPT !.nextstate = @ + 1]
    /\ AiDone(csrc, caiter)

(***************************************************************************)
(* Visit over a ComplementFst.  The complement is a delayed FST, not an    *)
(* expanded one: Visit sees its Start(), its state cursor (states 0..n,    *)
(* state i at position i), its arc cursors and Final.  Start() is the      *)
(* value CStart gives for the Impl's bits, the source's kError included.   *)
(***************************************************************************)
ComplementView(f, cur) ==
    [start |-> CStart(cur, f),
     arcs |-> [i \in 1..(NumStates(f) + 1) |-> Drain(f, AiCtor(i - 1))],
     final |-> [i \in 1..(NumStates(f) + 1) |-> CFinal(f, i - 1)],
     expanded |-> FALSE]

\* a ComplementFst has been built from a source and Visit is called on it
InitVisitComplement ==
    /\ csrc \in {Source(f, d) : f \in Fsts({1}, {Zero, One}, {TRUE}),
                                d \in {"none", "error", "weighted_arc"}}
    /\ cpc = "built"
    /\ cprops = ComplementCtor(csrc)
    /\ cret = NoCall
    /\ caiter = NoCursor
    /\ cseen = <<>>
    /\ csiter = NoStateCursor
    /\ csseen = <<>>
    /\ VisitCall({ComplementView(csrc, cprops)},
                 Options({"copy"}, {"any"}, {0}, {TRUE}))
    /\ IdleEncode
    /\ IdleTools
    /\ IdleObjects

SpecVisitComplement == InitVisitComplement /\ [][NextVisit]_vars

\* Properties(kError, false) of the complement is set
ComplementError == ImplProperties(cprops, {kError}, csrc) # {}

\* C32: when kError is set on a ComplementFst, its Start() is kNoStateId
\* and a Visit over it calls InitVisit and FinishVisit and nothing else and
\* never uses the queue; the complement still has the states 0..n, Final
\* and the arcs that the source gives: One for state 0 and for the states
\* whose source state has final weight Zero, the kRhoLabel arc first and
\* the source's arcs shifted by one after it.
C32_ErrorComplementNotVisited ==
    ComplementError =>
        /\ fst.start = kNoStateId
        /\ \A i \in 1..Len(log) : log[i].cb \in {"InitVisit", "FinishVisit"}
        /\ queue = <<>> /\ queue_ops = 0
        /\ pc = "done" => Len(log) = 2
        /\ NumStates(fst) = NumStates(csrc) + 1
        /\ \A s \in 0..NumStates(csrc) :
              /\ fst.arcs[s + 1] = ExpectedArcs(csrc, s)
              /\ NumArcs(fst, s) = CNumArcs(csrc, s)
              /\ Final(fst, s) =
                    IF s = 0 THEN One
                    ELSE IF csrc.final[s] = Zero THEN One ELSE Zero

\* C32 witness: Visit has returned on the complement of a source that
\* carries kError and is otherwise as required, with two states, a start
\* state and two arcs
C32_Witness ==
    /\ pc = "done" /\ ComplementError
    /\ csrc.error /\ ValidSource(csrc)
    /\ NumStates(csrc) = 2 /\ csrc.start = 0
    /\ NumArcs(csrc, 0) = 1 /\ NumArcs(csrc, 1) = 1
    /\ Len(log) = 2

(***************************************************************************)
(* Several EncodeMappers over one table: the first is                      *)
(* EncodeMapper(flags, ENCODE), the others are copies made with one of the *)
(* two copy constructors.  tlast records the last call: the constructor    *)
(* with the mapper copied from, or operator() with the mapper called.      *)
(***************************************************************************)
InitMappers ==
    /\ eflags \in EncodeFlags
    /\ tflags = eflags
    /\ etable = <<>>
    /\ derror = FALSE
    /\ dtab = NullRef
    /\ elast = [op |-> "none", in |-> NoArc, mid |-> NoArc, out |-> NoArc]
    /\ issued = <<>>
    /\ IdleTable
    /\ mappers = <<MapperCtor(eflags, ENCODE)>>
    /\ ehandles = <<>>
    /\ eimpls = <<>>
    /\ IdleVisit
    /\ IdleComplement
    /\ IdleTools

\* EncodeMapper copy(mappers[k])
CopyMapper ==
    /\ Len(mappers) < MaxMappers
    /\ \E k \in 1..Len(mappers) :
          /\ mappers' = Append(mappers, MapperCopy(mappers[k]))
          /\ tlast' = [op |-> "EncodeMapper(mapper)", mapper |-> k]
    /\ UNCHANGED <<eflags, etable, derror, elast, dtab, issued, tkept, tflags,
                   symbolVars, streamVars, ehandles, eimpls>>
    /\ UNCHANGED otherThanEncodeAndObjects

\* EncodeMapper copy(mappers[k], type)
CopyMapperWithType ==
    /\ Len(mappers) < MaxMappers
    /\ \E k \in 1..Len(mappers), type \in {ENCODE, DECODE} :
          /\ mappers' = Append(mappers, MapperCopyType(mappers[k], type))
          /\ tlast' = [op |-> "EncodeMapper(mapper, type)", mapper |-> k]
    /\ UNCHANGED <<eflags, etable, derror, elast, dtab, issued, tkept, tflags,
                   symbolVars, streamVars, ehandles, eimpls>>
    /\ UNCHANGED otherThanEncodeAndObjects

\* mappers[k](arc)
CallMapper ==
    /\ \E k \in 1..Len(mappers) :
          \E a \in IF mappers[k].type = ENCODE THEN TableArcs ELSE DecoderArcs :
              LET m == mappers[k]
                  r == MapperCall(m.type, m.flags, TableOf(m.table), m.error, a)
              IN  /\ Len(r.tuples) <= MaxTuples
                  /\ etable' = r.tuples
                  /\ mappers' = [mappers EXCEPT ![k].error = r.error]
                  /\ tlast' = [op |-> "operator()", mapper |-> k]
    /\ UNCHANGED <<eflags, derror, elast, dtab, issued, tkept, tflags,
                   symbolVars, streamVars, ehandles, eimpls>>
    /\ UNCHANGED otherThanEncodeAndObjects

NextMappers ==
    \/ CopyMapper
    \/ CopyMapperWithType
    \/ CallMapper

SpecMappers == InitMappers /\ [][NextMappers]_vars

\* the error flags of the mappers 1..n
ErrorFlags(ms, n) == [j \in 1..n |-> ms[j].error]

\* C33: the error flag is a member of each mapper, not of the table they
\* share: a mapper made by the copy constructor with a type has the error
\* flag of the mapper it was copied from, a mapper made by the plain copy
\* constructor has a cleared flag whatever the flag of its source, both
\* leave the flags of the existing mappers as they are, and a call of one
\* mapper changes no other mapper's flag, so an error raised on a decoder
\* does not reach the encoder it was derived from.
C33_ErrorFlagPerMapper ==
    /\ [](\A j \in 1..Len(mappers) : mappers[j].table = TheTable)
    /\ [][LET n == Len(mappers)
              k == tlast'.mapper
          IN  IF Len(mappers') = n + 1
              THEN /\ ErrorFlags(mappers', n) = ErrorFlags(mappers, n)
                   /\ tlast'.op = "EncodeMapper(mapper)" => ~mappers'[n + 1].error
                   /\ tlast'.op = "EncodeMapper(mapper, type)" =>
                          (mappers'[n + 1].error = mappers[k].error)
              ELSE /\ Len(mappers') = n
                   /\ \A j \in 1..n :
                          j # k => (mappers'[j].error = mappers[j].error)]_vars

\* C33 witness: a decoder made from the encoder has raised an error, the
\* encoder's flag is clear, and a plain copy of the decoder has just been
\* made with a clear flag
C33_Witness ==
    /\ Len(mappers) = 3
    /\ mappers[1].type = ENCODE /\ ~mappers[1].error
    /\ mappers[2].type = DECODE /\ mappers[2].error
    /\ mappers[3].type = DECODE /\ ~mappers[3].error
    /\ tlast = [op |-> "EncodeMapper(mapper)", mapper |-> 2]

(***************************************************************************)
(* EncodeFst::Copy (encode.h, lines 460-471).  An EncodeFst points to an   *)
(* Impl; EncodeFst(const EncodeFst &fst, bool copy = false), called with   *)
(* one argument, makes an object that points to the Impl of fst.           *)
(***************************************************************************)
\* GetImpl() of EncodeFst object h
ImplOf(handles, h) == handles[h].impl

\* Properties(mask, false) of EncodeFst object h
EncodeFstProperties(handles, impls, h, mask) == impls[ImplOf(handles, h)].props \cap mask

\* a plausible slip: Copy(true) gives the copy a clone of the Impl, as a
\* safe copy is described
EncodeFstCopyClone(handles, impls, h, safe) ==
    IF safe
    THEN [impls |-> Append(impls, impls[ImplOf(handles, h)]),
          handles |-> Append(handles, [impl |-> Len(impls) + 1, from |-> h, safe |-> safe])]
    ELSE [impls |-> impls,
          handles |-> Append(handles, [impl |-> ImplOf(handles, h), from |-> h,
                                       safe |-> safe])]

\* EncodeFst::Copy(safe) on object h: the Impls and the objects after it
EncodeFstCopy(handles, impls, h, safe) ==
    [impls |-> IF safe
               THEN [impls EXCEPT ![ImplOf(handles, h)].props =
                                      SetProperties(@, {kError}, {kError})]
               ELSE impls,
     handles |-> Append(handles, [impl |-> ImplOf(handles, h), from |-> h, safe |-> safe])]

\* EncodeFst(fst, encoder): one object with an Impl of its own
InitEncodeFstCopy ==
    /\ eimpls \in {<<[props |-> {}]>>, <<[props |-> {kAcceptor}]>>}
    /\ ehandles = <<[impl |-> 1, from |-> 0, safe |-> FALSE]>>
    /\ mappers = <<>>
    /\ IdleVisit
    /\ IdleComplement
    /\ IdleEncode
    /\ IdleTools

\* EncodeFst(fst, encoder) once more: a further object with its own Impl
NewEncodeFst ==
    /\ Len(ehandles) < MaxEncodeFsts
    /\ eimpls' = Append(eimpls, [props |-> {}])
    /\ ehandles' = Append(ehandles, [impl |-> Len(eimpls) + 1, from |-> 0, safe |-> FALSE])
    /\ UNCHANGED mappers
    /\ UNCHANGED otherThanObjects

\* fst.Copy(safe) on one of the objects
CopyEncodeFst ==
    /\ Len(ehandles) < MaxEncodeFsts
    /\ \E h \in 1..Len(ehandles), safe \in BOOLEAN :
          LET r == EncodeFstCopy(ehandles, eimpls, h, safe)
          IN  /\ eimpls' = r.impls
              /\ ehandles' = r.handles
    /\ UNCHANGED mappers
    /\ UNCHANGED otherThanObjects

NextEncodeFstCopy ==
    \/ NewEncodeFst
    \/ CopyEncodeFst

SpecEncodeFstCopy == InitEncodeFstCopy /\ [][NextEncodeFstCopy]_vars

\* C34: a copy made by Copy(safe) points to the Impl of the object copied,
\* for safe = true as for safe = false; after Copy(true) the object copied
\* and the copy both report kError; an Impl carries kError only if
\* Copy(true) was called on one of the objects that point to it, so
\* Copy(false) sets no error; no other property bit of an Impl changes.
C34_SafeCopyRefused ==
    /\ [](\A k \in 1..Len(ehandles) :
            LET c == ehandles[k]
            IN  c.from # 0 =>
                  /\ c.from < k
                  /\ ImplOf(ehandles, k) = ImplOf(ehandles, c.from)
                  /\ c.safe =>
                        /\ EncodeFstProperties(ehandles, eimpls, k, {kError}) = {kError}
                        /\ EncodeFstProperties(ehandles, eimpls, c.from, {kError}) = {kError})
    /\ [](\A i \in 1..Len(eimpls) :
            kError \in eimpls[i].props =>
                \E k \in 1..Len(ehandles) : ehandles[k].safe /\ ImplOf(ehandles, k) = i)
    /\ [][\A i \in 1..Len(eimpls) :
            /\ eimpls'[i].props \ {kError} = eimpls[i].props \ {kError}
            /\ (~ehandles'[Len(ehandles')].safe) => (eimpls'[i] = eimpls[i])]_vars

\* C34 witness: an EncodeFst was copied with Copy(false), the copy was
\* copied with Copy(true), and all three report kError, while a further
\* EncodeFst with an Impl of its own does not
C34_Witness ==
    /\ Len(ehandles) = 4
    /\ ehandles[2] = [impl |-> 1, from |-> 1, safe |-> FALSE]
    /\ ehandles[3] = [impl |-> 1, from |-> 2, safe |-> TRUE]
    /\ ehandles[4].from = 0 /\ ehandles[4].impl = 2
    /\ \A h \in 1..3 : EncodeFstProperties(ehandles, eimpls, h, {kError, kAcceptor})
                           = {kError, kAcceptor}
    /\ EncodeFstProperties(ehandles, eimpls, 4, {kError}) = {}

====
